---- MODULE Spec2Model ----
(***************************************************************************)
(* A model of the process-driving test harness of phase-space-harness:     *)
(* crates/test_harness/src/harness.rs (EngineHarness, Session and the      *)
(* collector threads).                                                     *)
(*                                                                         *)
(* The foreground thread is a program counter pc.  Calling a method puts   *)
(* pc at the method's entry with its argument; every blocking call or      *)
(* system call of the method is then one step, so that the child process,  *)
(* the connection and the collector threads can move between two steps.    *)
(*                                                                         *)
(* TickSpec      a live Session driven by advance_ticks, with the child,   *)
(*               the connection and the event collector moving freely.     *)
(* TickFairSpec  TickSpec with the foreground thread always scheduled.     *)
(* ShutdownSpec  a Session through its shutdown sequence                   *)
(*               (request_shutdown, run by Session::shutdown and by Drop), *)
(*               with refresh_entities and telemetry_for before, between   *)
(*               and after the runs.                                       *)
(* StartupSpec   EngineHarness::spawn, run_scenario and attach, up to the  *)
(*               Session that finish_session builds, with the log readers  *)
(*               and the log collector.                                    *)
(* BufferSpec    a Session on which a test calls one operation and which   *)
(*               is then dropped, with both collectors and the readers.    *)
(* ServerSpec    the reference server crates/test_harness/src/bin/         *)
(*               fake_engine.rs: its dispatch loop and its telemetry       *)
(*               thread, with a client that sends requests and may close   *)
(*               the connection.                                           *)
(* EntitySpec    the reference server with a client that spawns, inspects  *)
(*               and lists entities.                                       *)
(* StopFairSpec  the reference server through its shutdown, both server    *)
(*               threads always scheduled.                                 *)
(* IdleFairSpec  the reference server without requests, its telemetry     *)
(*               thread always scheduled.                                  *)
(* ListSpec      the reference server started with two entities, with a    *)
(*               client that spawns, lists and shuts down.                 *)
(* FrameSpec     the reference server with a client whose frames may       *)
(*               arrive in parts.                                          *)
(* WriteSpec     the reference server with writes that the socket may take *)
(*               in parts.                                                 *)
(* LockSpec      a Session with the two buffer locks: logs_for, all_logs   *)
(*               and both collectors, each critical section in steps.      *)
(* SmokeSpec     the harness driving the reference server, as              *)
(*               tests/harness_smoke.rs does.                              *)
(* ShutdownFairSpec  ShutdownSpec with the foreground thread, the readers *)
(*               and the collectors always scheduled.                      *)
(* CacheSpec     spawn and run_scenario followed by refresh_entities: the  *)
(*               Session's entity cache and its index.                     *)
(* StoreSpec     the reference server started with two entities, with a    *)
(*               client that spawns, inspects, lists and shuts down.       *)
(***************************************************************************)
EXTENDS Integers, Sequences, FiniteSets, TLC

(***************************************************************************)
(* Bounds of the model.                                                    *)
(***************************************************************************)
\* Stand-in for u64::MAX: ticks are u64 and start_tick + ticks saturates.
U64Max == 3
\* Stand-in for u32::MAX: tick_scale is u32::try_from(ticks) or u32::MAX.
U32Max == 2
\* Largest `ticks` argument passed to advance_ticks.
MaxTicks == 3
\* Number of 10 ms sleeps that fill the 2 s window of request_shutdown
\* (200 in the program).
PollWindow == 2
\* Most events the event collector receives.
MaxEvents == 2
\* Most lines the engine writes to its stdout and stderr.
MaxLogLines == 2
\* Most runs of the shutdown sequence on one session (Session::shutdown runs
\* it once explicitly and once more from Drop).
MaxRuns == 2
\* Most requests handed to the client.
MaxSent == 2
\* startup_timeout in 50 ms receive timeouts (100 by default in the program).
StartupWindow == 2
\* Most requests the reference server reads.
MaxRequests == 2
\* Most idle ticks the telemetry thread of the reference server generates.
MaxIdleTicks == 1

\* Configured tick_wait values (Duration, in abstract units); zero included.
TickWaits == {0, 1}

\* evPending when the event collector holds no tick to publish: no u64.
NoTick == U64Max + 1

EntityIds == {1, 2}

Summary(id, dim) == [entity_id |-> id, dimension |-> dim]

\* Entity listings an engine may answer with.
EntityLists ==
    { <<Summary(1, 0)>>, <<Summary(1, 1), Summary(2, 0)>> }

Telemetry(id, t) ==
    [kind |-> "Telemetry", id |-> id, tick |-> t, message |-> "tick {tick}"]
LogEvent ==
    [kind |-> "Log", id |-> 0, tick |-> 0,
     message |-> <<"entity", " ", "1", " ", "spawned">>]
ServerEvents(ids) ==
    {Telemetry(id, t) : id \in ids, t \in 0..U64Max} \cup {LogEvent}

\* The engine's two output streams, each read by one spawn_log_reader thread.
Streams == {"Stdout", "Stderr"}

\* A text is the sequence of its pieces: words, blanks, numbers, addresses.
ListenLine ==
    [stream |-> "Stdout", line |-> <<"listening on", " ", "127.0.0.1:4000">>]

VARIABLES
    \* ---- the child process
    child_exited,       \* the operating system's truth: the engine has exited
    child_status,       \* Child's cached exit status: "None" | "Some"
    \* ---- EngineHarness / Session fields
    client,             \* Option<Client>: "Some" | "None"
    log_buffer,         \* Vec<LogLine>
    event_buffer,       \* Vec<ServerEvent>
    log_collector,      \* Option<JoinHandle>: "Some" | "None"
    event_collector,    \* Option<JoinHandle>: "Some" | "None"
    max_tick,           \* AtomicU64
    tick_wait,          \* Duration
    entity_dimensions,  \* HashMap<u64, u32>, as a set of <<id, dimension>>
    entities,           \* Vec<EntitySummary>
    \* ---- the environment
    connected,          \* Client::is_connected()
    logThread,          \* the log collector thread: "none" | "running" | "ended"
    evThread,           \* the event collector thread: "none" | "running" | "ended"
    evPending,          \* tick the event collector appended and has not yet published
    readers,            \* streams whose log reader thread still runs
    log_chan,           \* lines sent on the log channel and not yet received
    delivered,          \* every line sent on the log channel, in order of sending
    log_lock,           \* holder of the log buffer's Mutex, or "free"
    event_lock,         \* holder of the event buffer's Mutex, or "free"
    lc_line,            \* Option: the line the log collector received and has not pushed
    ec_event,           \* Option: the event the event collector received and has not pushed
    \* ---- the foreground thread
    pc,                 \* position in the running method; "idle" between calls
    op,                 \* the method running or last run
    ticks,              \* advance_ticks' argument
    entity_id,          \* telemetry_for's argument
    start_tick, target_tick, waited, deadline,   \* advance_ticks' locals
    elapsed,            \* time since `start` in request_shutdown and the handshake
    spawns,             \* run_scenario's spawn specs not yet sent
    reply,              \* Option: the response Client::send returned to the caller
    addr,               \* Option: the address wait_for_listen_address returned
    handle,             \* who holds the Child: "none" | "local" | "harness" | "session" | "dropped"
    alive,              \* a Session exists and has not been dropped
    \* ---- what an observer of the calls records
    ret,                \* result of the last finished call; "none" while one runs
    path,               \* how advance_ticks returned: "zero" | "tick" | "fallback" | "exit"
    sent,               \* requests handed to Client::send, in order
    killCalls,          \* calls of Child::kill
    waitCalls,          \* calls of the blocking Child::wait
    joinCalls,          \* calls of JoinHandle::join
    runs,               \* runs of the shutdown sequence started so far
    lines,              \* value returned by the last logs_for, all_logs or telemetry_for
    completed,          \* some run of the shutdown sequence has returned Ok
    \* ---- the reference server (fake_engine.rs): shared state
    srv_entities,       \* the entity store, BTreeMap from id to EntityRecord
    next_id,            \* AtomicU64, the id the next Spawn is given
    running,            \* AtomicBool
    tick_counter,       \* AtomicU64
    event_queue,        \* events sent on the channel and not yet received
    event_tx,           \* "open" until main drops the sender
    wire,               \* frames written on the connection, in order
    peer_open,          \* the client has not closed the connection
    stream_pos,         \* where main's next read starts: "boundary" | "inside" a frame
    \* ---- the reference server: the two threads
    main_pc,            \* position of main
    envelope,           \* handle_request: the request envelope
    response,           \* handle_request: the response payload
    tick,               \* handle_request: `tick`
    tel_pc,             \* position of the telemetry thread
    tel_event,          \* telemetry thread: the event received or built
    tel_tick,           \* telemetry thread: `tick` of an idle tick
    \* ---- observers of the reference server
    handled,            \* request envelopes read, in order
    idle_ticks          \* idle ticks generated so far

childVars == <<child_exited, child_status>>
fieldVars == <<client, log_buffer, event_buffer, log_collector, event_collector,
               max_tick, tick_wait, entity_dimensions, entities>>
logVars == <<readers, log_chan, delivered>>
lockVars == <<log_lock, event_lock, lc_line, ec_event>>
envVars == <<connected, logThread, evThread, evPending, logVars, lockVars>>
localVars == <<ticks, entity_id, start_tick, target_tick, waited, deadline, elapsed,
               spawns, reply, addr>>
fgVars == <<pc, op, localVars, handle, alive>>
obsVars == <<ret, path, sent, killCalls, waitCalls, joinCalls, runs, lines,
             completed>>
harnessVars == <<childVars, fieldVars, envVars, fgVars, obsVars>>
sharedVars == <<srv_entities, next_id, running, tick_counter, event_queue,
                event_tx, wire, peer_open, stream_pos>>
mainVars == <<main_pc, envelope, response, tick>>
telVars == <<tel_pc, tel_event, tel_tick>>
serverVars == <<sharedVars, mainVars, telVars, handled, idle_ticks>>
vars == <<harnessVars, serverVars>>

\* Option<T>: None is the empty sequence, Some(x) the sequence of x alone.
None == <<>>
Some(x) == <<x>>

\* No thread is inside a critical section of the two buffers.
LocksFree ==
    /\ log_lock = "free"
    /\ event_lock = "free"
    /\ lc_line = None
    /\ ec_event = None

\* The reference server after main has accepted the connection and started
\* the telemetry thread (fake_engine.rs 17-37): no entity, next_id 1, running,
\* tick_counter 0, an empty channel.
ServerStarted ==
    /\ srv_entities = <<>>
    /\ next_id = 1
    /\ running = TRUE
    /\ tick_counter = 0
    /\ event_queue = <<>>
    /\ event_tx = "open"
    /\ wire = <<>>
    /\ peer_open = TRUE
    /\ stream_pos = "boundary"
    /\ main_pc = "read"
    /\ envelope = None
    /\ response = None
    /\ tick = 0
    /\ tel_pc = "loop"
    /\ tel_event = None
    /\ tel_tick = 0
    /\ handled = <<>>
    /\ idle_ticks = 0

\* Mutant: the line sent last is received first.
recv_Newest(chan) == chan[Len(chan)]

\* mpsc::Receiver::recv and recv_timeout on a channel that holds a message:
\* the message sent first.
recv(chan) == Head(chan)

\* Mutant: the new element is put in front.
Push_Front(buffer, x) == <<x>> \o buffer

\* Mutant: the push is skipped.
Push_Skipped(buffer, x) == buffer

\* Vec::push on a locked buffer: `guard.push(line)`, `guard.push(event)`.
Push(buffer, x) == Append(buffer, x)

IsPrefix(s, t) == Len(s) <= Len(t) /\ SubSeq(t, 1, Len(s)) = s

Max(a, b) == IF a >= b THEN a ELSE b

\* Mutant: the index is left empty.
IndexOf_Empty(list) == {}

(***************************************************************************)
(* finish_session (harness.rs 176-194): the id -> dimension index of an    *)
(* entity list.  A later entry with the same id replaces an earlier one    *)
(* (HashMap collect).                                                      *)
(***************************************************************************)
IndexOf(list) ==
    { <<list[i].entity_id, list[i].dimension>> : i \in
        { j \in 1..Len(list) :
            \A k \in (j+1)..Len(list) : list[k].entity_id # list[j].entity_id } }

CachedIds == { e[1] : e \in entity_dimensions }

\* The foreground thread and the observer before any call.
FreshForeground ==
    /\ pc = "idle"
    /\ op = "none"
    /\ ticks = 0
    /\ entity_id = 0
    /\ start_tick = 0
    /\ target_tick = 0
    /\ waited = 0
    /\ deadline = 0
    /\ elapsed = 0
    /\ spawns = <<>>
    /\ reply = None
    /\ addr = None
    /\ ret = "none"
    /\ path = "none"
    /\ sent = <<>>
    /\ killCalls = 0
    /\ waitCalls = 0
    /\ joinCalls = 0
    /\ runs = 0
    /\ lines = <<>>
    /\ completed = FALSE

\* The Session finish_session returns: client, both collector handles and
\* the entity cache in place, the collectors running.
SessionBuilt ==
    /\ client = "Some"
    /\ log_collector = "Some"
    /\ event_collector = "Some"
    /\ logThread = "running"
    /\ evThread = "running"
    /\ evPending = NoTick
    /\ log_buffer = <<ListenLine>>
    /\ readers = Streams
    /\ log_chan = <<>>
    /\ delivered = <<ListenLine>>
    /\ LocksFree
    /\ event_buffer = <<>>
    /\ max_tick = 0
    /\ tick_wait \in TickWaits
    /\ entities \in EntityLists
    /\ entity_dimensions = IndexOf(entities)
    /\ handle = "session"
    /\ alive = TRUE

\* A session right after finish_session, the engine running and connected.
Init ==
    /\ child_exited = FALSE
    /\ child_status = "None"
    /\ connected = TRUE
    /\ SessionBuilt
    /\ FreshForeground
    /\ ServerStarted

(***************************************************************************)
(* The child process handle (std::process::Child as the methods use it).   *)
(* Once an exit status was collected the handle caches it and try_wait,    *)
(* wait and kill make no system call any more; before that each is a       *)
(* system call whose io::Result may be Err.                                *)
(***************************************************************************)
TryWaitOutcomes ==
    IF child_status = "Some" THEN {"exited"}
    ELSE {IF child_exited THEN "exited" ELSE "running", "err"}

KillOutcomes == IF child_status = "Some" THEN {"cached"} ELSE {"ok", "err"}

\* wait blocks until the child has exited, or fails.
WaitOutcomes ==
    IF child_status = "Some" THEN {"cached"}
    ELSE (IF child_exited THEN {"ok"} ELSE {}) \cup {"err"}

\* A function returns `result` to its caller: its locals are gone.
Finish(result) ==
    /\ pc' = "idle"
    /\ ret' = result
    /\ spawns' = <<>>
    /\ reply' = None
    /\ addr' = None
    /\ ticks' = 0
    /\ entity_id' = 0
    /\ start_tick' = 0
    /\ target_tick' = 0
    /\ waited' = 0
    /\ deadline' = 0
    /\ elapsed' = 0

\* A method of Session returns; Drop's run ends the session and drops the
\* Child.
Return(result) ==
    /\ Finish(result)
    /\ alive' = (alive /\ op # "drop")
    /\ handle' = IF op = "drop" THEN "dropped" ELSE handle

\* The function goes on to its next step.
Goto(next) ==
    /\ pc' = next
    /\ UNCHANGED <<ret, handle, alive>>

\* A call of `method`: pc at its entry.
Begin(method, entry) ==
    /\ pc = "idle"
    /\ op' = method
    /\ pc' = entry
    /\ ret' = "none"
    /\ path' = "none"
    /\ UNCHANGED <<handle, alive>>

CanCall == pc = "idle" /\ alive

\* A call of a method of Session.
Enter(method, entry) ==
    /\ CanCall
    /\ Begin(method, entry)

(***************************************************************************)
(* Session::advance_ticks (harness.rs 252-289).                            *)
(***************************************************************************)
\* Mutant: the zero test is missing.
ZeroTicks_Missing(n) == FALSE

\* `if ticks == 0 { return Ok(()) }`
ZeroTicks(n) == n = 0

\* Mutant: the target is one tick short.
TargetTick_OneShort(start, n) ==
    IF start + n > U64Max THEN U64Max ELSE start + n - 1

\* start_tick.saturating_add(ticks)
TargetTick(start, n) == IF start + n > U64Max THEN U64Max ELSE start + n

\* u32::try_from(ticks.max(1)).unwrap_or(u32::MAX)
TickScale(n) ==
    LET m == Max(n, 1) IN IF m > U32Max THEN U32Max ELSE m

\* Mutant: the window is three times the scaled tick_wait.
Deadline_Tripled(tw, n) == tw * TickScale(n) * 3

\* self.tick_wait.saturating_mul(tick_scale).saturating_mul(2); the
\* durations of the model stay far below Duration::MAX.
Deadline(tw, n) == tw * TickScale(n) * 2

\* `while waited <= deadline`
LoopContinues(w, d) == w <= d

\* Mutant: an exited child does not end the call; the tick test decides.
TryWaitResult_ExitIgnored(r) ==
    CASE r = "err" -> "Io"
      [] OTHER -> "continue"

\* `if let Some(status) = self.child.try_wait()? { return Err(EngineExited) }`:
\* what the method does on each outcome of try_wait.
TryWaitResult(r) ==
    CASE r = "err" -> "Io"
      [] r = "exited" -> "EngineExited"
      [] OTHER -> "continue"

\* `self.max_tick.load(SeqCst) >= target_tick`
TickReached(mt, target) == mt >= target

\* Mutant: the fallback does not ask the client whether it is connected.
FallbackResult_NoConnCheck(cl, conn) ==
    IF cl = "Some" THEN "Ok" ELSE "ConnectionClosed"

\* The fallback's client check (harness.rs 280-288).
FallbackResult(cl, conn) ==
    IF cl = "Some"
    THEN IF ~conn THEN "ConnectionClosed" ELSE "Ok"
    ELSE "ConnectionClosed"

CallAdvanceTicks(n) ==
    /\ Enter("advance_ticks", "adv_entry")
    /\ ticks' = n
    /\ UNCHANGED <<childVars, fieldVars, envVars, entity_id, start_tick,
                   target_tick, waited, deadline, elapsed, spawns, reply, addr, sent, killCalls,
                   waitCalls, joinCalls, runs, lines, completed,
                   serverVars>>

\* Lines 253-263: the zero test, the locals, and the first loop test.
AdvEntry ==
    /\ pc = "adv_entry"
    /\ IF ZeroTicks(ticks)
       THEN /\ Return("Ok")
            /\ path' = "zero"
       ELSE /\ start_tick' = max_tick
            /\ target_tick' = TargetTick(max_tick, ticks)
            /\ waited' = 0
            /\ deadline' = Deadline(tick_wait, ticks)
            /\ Goto(IF LoopContinues(0, Deadline(tick_wait, ticks))
                    THEN "adv_try_wait" ELSE "fb_try_wait")
            /\ UNCHANGED <<ticks, entity_id, elapsed, spawns, reply, addr, path>>
    /\ UNCHANGED <<childVars, fieldVars, envVars, op, sent, killCalls, waitCalls,
                   joinCalls, runs, lines, completed,
                   serverVars>>

\* One try_wait of advance_ticks, in the loop (264-266) or in the fallback
\* (277-279); `next` is where a running child sends the method.
AdvTryWaitAt(here, next) ==
    /\ pc = here
    /\ \E r \in TryWaitOutcomes :
        /\ child_status' = IF r = "exited" THEN "Some" ELSE child_status
        /\ IF TryWaitResult(r) = "continue"
           THEN /\ Goto(next)
                /\ UNCHANGED <<localVars, path>>
           ELSE /\ Return(TryWaitResult(r))
                /\ path' = "exit"
    /\ UNCHANGED <<child_exited, fieldVars, envVars, op, sent, killCalls,
                   waitCalls, joinCalls, runs, lines, completed,
                   serverVars>>

AdvTryWait == AdvTryWaitAt("adv_try_wait", "adv_check_tick")

AdvCheckTick ==
    /\ pc = "adv_check_tick"
    /\ IF TickReached(max_tick, target_tick)
       THEN /\ Return("Ok")
            /\ path' = "tick"
       ELSE /\ Goto("adv_sleep")
            /\ UNCHANGED <<localVars, path>>
    /\ UNCHANGED <<childVars, fieldVars, envVars, op, sent, killCalls, waitCalls,
                   joinCalls, runs, lines, completed,
                   serverVars>>

\* thread::sleep(self.tick_wait); waited += self.tick_wait; then the loop test.
AdvSleep ==
    /\ pc = "adv_sleep"
    /\ waited' = waited + tick_wait
    /\ Goto(IF LoopContinues(waited + tick_wait, deadline)
            THEN "adv_try_wait" ELSE "fb_try_wait")
    /\ UNCHANGED <<childVars, fieldVars, envVars, op, ticks, entity_id,
                   start_tick, target_tick, deadline, elapsed, spawns, reply, addr, path, sent,
                   killCalls, waitCalls, joinCalls, runs, lines, completed,
                   serverVars>>

FbTryWait == AdvTryWaitAt("fb_try_wait", "fb_client")

FbClient ==
    /\ pc = "fb_client"
    /\ Return(FallbackResult(client, connected))
    /\ path' = "fallback"
    /\ UNCHANGED <<childVars, fieldVars, envVars, op, sent, killCalls, waitCalls,
                   joinCalls, runs, lines, completed,
                   serverVars>>

(***************************************************************************)
(* The environment: the engine process, the connection, and the event      *)
(* collector thread (spawn_event_collector, harness.rs 490-506).           *)
(***************************************************************************)
\* The engine exits on its own (or after a Shutdown request).
ChildExit ==
    /\ handle # "none"
    /\ ~child_exited
    /\ child_exited' = TRUE
    /\ UNCHANGED <<child_status, fieldVars, envVars, fgVars, obsVars,
                   serverVars>>

\* The connection closes under a client that is still held.
Disconnect ==
    /\ client = "Some"
    /\ connected
    /\ connected' = FALSE
    /\ UNCHANGED <<childVars, fieldVars, logThread, evThread, evPending, logVars, lockVars, fgVars,
                   obsVars,
                   serverVars>>

\* `while let Ok(event) = event_rx.recv() { guard.push(event.clone()); ...`
EventCollectorRecv(e) ==
    /\ evThread = "running"
    /\ evPending = NoTick
    /\ client = "Some"
    /\ connected
    /\ Len(event_buffer) < MaxEvents
    /\ event_buffer' = Push(event_buffer, e)
    /\ evPending' = IF e.kind = "Telemetry" THEN e.tick ELSE NoTick
    /\ UNCHANGED <<childVars, client, log_buffer, log_collector, event_collector,
                   max_tick, tick_wait, entity_dimensions, entities, connected,
                   logThread, evThread, logVars, lockVars, fgVars, obsVars,
                   serverVars>>

\* Mutant: the tick is stored instead of raised to.
FetchMax_Store(cur, t) == t

\* `max_tick.fetch_max(tick, SeqCst)`
FetchMax(cur, t) == Max(cur, t)

EventCollectorFetchMax ==
    /\ evPending # NoTick
    /\ max_tick' = FetchMax(max_tick, evPending)
    /\ evPending' = NoTick
    /\ UNCHANGED <<childVars, client, log_buffer, event_buffer, log_collector,
                   event_collector, tick_wait, entity_dimensions, entities,
                   connected, logThread, evThread, logVars, lockVars, fgVars, obsVars,
                   serverVars>>

\* The subscription closes once the client is dropped or the connection is
\* lost; recv then fails and the event collector ends.
EventCollectorEnd ==
    /\ evThread = "running"
    /\ evPending = NoTick
    /\ client = "None" \/ ~connected
    /\ evThread' = "ended"
    /\ UNCHANGED <<childVars, fieldVars, connected, logThread, evPending, logVars, lockVars, fgVars,
                   obsVars,
                   serverVars>>

AdvanceSteps ==
    \/ AdvEntry
    \/ AdvTryWait
    \/ AdvCheckTick
    \/ AdvSleep
    \/ FbTryWait
    \/ FbClient

TickNext ==
    \/ \E n \in 0..MaxTicks : CallAdvanceTicks(n)
    \/ AdvanceSteps
    \/ ChildExit
    \/ Disconnect
    \/ \E e \in ServerEvents({1}) : EventCollectorRecv(e)
    \/ EventCollectorFetchMax
    \/ EventCollectorEnd

TickSpec == Init /\ [][TickNext]_vars

\* The foreground thread is an operating-system thread of its own: a method
\* that can take its next step takes it.
TickFairSpec == TickSpec /\ WF_vars(AdvanceSteps)

(***************************************************************************)
(* Claims about advance_ticks.                                             *)
(***************************************************************************)
\* The step by which advance_ticks returns Ok.
AdvReturnsOk ==
    /\ op = "advance_ticks"
    /\ pc # "idle"
    /\ pc' = "idle"
    /\ ret' = "Ok"

\* C1, as claimed: when advance_ticks(n), n > 0, returns Ok through the tick
\* path, max_tick is at least (max_tick read at call start) + n; on every Ok
\* return max_tick is not below its value at call start.
C1_AsClaimed ==
    [][(AdvReturnsOk /\ ticks > 0) =>
          /\ max_tick' >= start_tick
          /\ (path' = "tick" => max_tick' >= start_tick + ticks)]_vars

\* C1, amended: through the tick path max_tick is at least start + n where
\* that sum fits a u64, and is u64::MAX where it does not (the target is the
\* saturating sum); on every Ok return max_tick is not below its value at
\* call start.
C1_TickPathReachesSaturatingTarget ==
    [][(AdvReturnsOk /\ ticks > 0) =>
          /\ max_tick' >= start_tick
          /\ (path' = "tick" /\ start_tick + ticks <= U64Max
                => max_tick' >= start_tick + ticks)
          /\ (path' = "tick" /\ start_tick + ticks > U64Max
                => max_tick' = U64Max)]_vars

\* C1 witness: advance_ticks(1) called at max_tick 0 has returned Ok through
\* the tick path after the collector raised max_tick to 1.
C1_Witness ==
    /\ pc = "idle"
    /\ op = "advance_ticks"
    /\ ret = "Ok"
    /\ path = "tick"
    /\ max_tick = 1

\* C2, as claimed: every call of advance_ticks returns, whatever tick_wait
\* is, also when max_tick never reaches the target and the child never exits.
C2_AsClaimed == (pc = "adv_entry") ~> (pc = "idle")

\* C3: a try_wait of advance_ticks, in the loop or in the fallback, that sees
\* the child exited ends the call with EngineExited, whatever max_tick and the
\* connection are.
C3_ExitTakesPrecedence ==
    [][(pc \in {"adv_try_wait", "fb_try_wait"} /\ pc' # pc /\ child_status' = "Some")
          => (pc' = "idle" /\ ret' = "EngineExited")]_vars

\* C3 witness: EngineExited was returned although max_tick had reached every
\* possible target and the connection was closed.
C3_Witness ==
    /\ pc = "idle"
    /\ op = "advance_ticks"
    /\ ret = "EngineExited"
    /\ max_tick = U64Max
    /\ ~connected

\* C4: the fallback is entered only past the deadline, and its result is that
\* of its two checks alone: EngineExited if try_wait sees the child exited;
\* otherwise Ok if the client is present and connected and ConnectionClosed
\* if it is absent or disconnected, whatever max_tick is.
C4_FallbackDecidedByLiveness ==
    /\ [](pc \in {"fb_try_wait", "fb_client"} => waited > deadline)
    /\ [][(pc = "fb_try_wait" /\ pc' # pc) =>
             IF child_status' = "Some"
             THEN pc' = "idle" /\ ret' = "EngineExited"
             ELSE pc' = "fb_client" \/ (pc' = "idle" /\ ret' = "Io")]_vars
    /\ [][(pc = "fb_client" /\ pc' # pc) =>
             /\ pc' = "idle"
             /\ ret' = IF client = "Some" /\ connected
                       THEN "Ok" ELSE "ConnectionClosed"]_vars

\* C4 witness: the fallback returned Ok although no event ever arrived.
C4_Witness ==
    /\ pc = "idle"
    /\ op = "advance_ticks"
    /\ path = "fallback"
    /\ ret = "Ok"
    /\ event_buffer = <<>>
    /\ max_tick = 0

\* C5: advance_ticks(0) returns Ok in its first step and changes nothing: no
\* request, no sleep, max_tick, both buffers and the entity cache as before.
C5_ZeroTicksIsNoOp ==
    [][(pc = "adv_entry" /\ ticks = 0 /\ pc' # pc) =>
          /\ pc' = "idle"
          /\ ret' = "Ok"
          /\ UNCHANGED <<max_tick, log_buffer, event_buffer, entities,
                         entity_dimensions, sent, waited, client, childVars,
                         envVars, log_collector, event_collector, killCalls,
                         waitCalls, joinCalls>>]_vars

\* C5 witness: advance_ticks(0) has returned Ok with the child exited and the
\* connection closed.
C5_Witness ==
    /\ pc = "idle"
    /\ op = "advance_ticks"
    /\ path = "zero"
    /\ ret = "Ok"
    /\ child_exited
    /\ ~connected

\* The events the event collector has finished processing: all it pushed but
\* a Telemetry event whose tick it has yet to publish.
Processed ==
    IF evPending = NoTick
    THEN event_buffer
    ELSE SubSeq(event_buffer, 1, Len(event_buffer) - 1)

\* C11: max_tick never decreases, and once the event collector has finished
\* processing a Telemetry event with tick T, max_tick >= T in every later
\* state, whatever the foreground thread does in between.
C11_MaxTickMonotone ==
    /\ [][max_tick' >= max_tick]_vars
    /\ [](\A i \in 1..Len(Processed) :
            Processed[i].kind = "Telemetry" => max_tick >= Processed[i].tick)

\* C11 witness: a Telemetry event with a lower tick was processed after one
\* with a higher tick, during a call of advance_ticks, and max_tick is still
\* the higher tick.
C11_Witness ==
    /\ Len(event_buffer) = 2
    /\ evPending = NoTick
    /\ event_buffer[1].kind = "Telemetry"
    /\ event_buffer[2].kind = "Telemetry"
    /\ event_buffer[1].tick > event_buffer[2].tick
    /\ max_tick = event_buffer[1].tick
    /\ pc = "adv_sleep"

(***************************************************************************)
(* Requests handed to Client::send.                                        *)
(***************************************************************************)
Request(kind, type, dim, id) ==
    [req |-> kind, entity_type |-> type, dimension |-> dim, entity_id |-> id]
ShutdownRequest == Request("Shutdown", "", 0, 0)
ListRequest == Request("List", "", 0, 0)
InspectRequest(dim, id) == Request("Inspect", "", dim, id)
SpawnRequest(spec) == Request("Spawn", spec.entity_type, spec.dimension, 0)

(***************************************************************************)
(* The log collector thread (spawn_log_reader and spawn_log_collector,     *)
(* harness.rs 424-438 and 477-488).  The readers forward lines on one      *)
(* channel until the engine's stdout and stderr reach end of file, which   *)
(* they do when the engine has exited; once the channel is empty and both  *)
(* readers are gone the collector's recv fails and the thread ends.        *)
(***************************************************************************)
LogLines == { [stream |-> "Stdout", line |-> <<"entity", " ", "1", " ", "moved">>],
              [stream |-> "Stderr", line |-> <<"warn">>] }

\* spawn_log_reader, `for line in buf_reader.lines().flatten() { tx.send(..) }`:
\* the reader of the line's stream sends it on the channel.
ReaderSend(l) ==
    /\ l.stream \in readers
    /\ Len(delivered) < MaxLogLines
    /\ log_chan' = Append(log_chan, l)
    /\ delivered' = Append(delivered, l)
    /\ UNCHANGED <<childVars, fieldVars, connected, logThread, evThread,
                   evPending, readers, lockVars, fgVars, obsVars,
                   serverVars>>

\* A reader reaches the end of its stream, closed by the exit of the engine,
\* and drops its sender.
ReaderEnd(st) ==
    /\ st \in readers
    /\ child_exited
    /\ readers' = readers \ {st}
    /\ UNCHANGED <<childVars, fieldVars, connected, logThread, evThread,
                   evPending, log_chan, delivered, lockVars, fgVars, obsVars,
                   serverVars>>

\* `while let Ok(line) = log_rx.recv() { guard.push(line) }`
LogCollectorRecv ==
    /\ logThread = "running"
    /\ log_chan # <<>>
    /\ log_buffer' = Push(log_buffer, recv(log_chan))
    /\ log_chan' = Tail(log_chan)
    /\ UNCHANGED <<childVars, client, event_buffer, log_collector,
                   event_collector, max_tick, tick_wait, entity_dimensions,
                   entities, connected, logThread, evThread, evPending,
                   readers, delivered, lockVars, fgVars, obsVars,
                   serverVars>>

\* recv fails once the channel is empty and both senders are gone.
LogCollectorEnd ==
    /\ logThread = "running"
    /\ log_chan = <<>>
    /\ readers = {}
    /\ logThread' = "ended"
    /\ UNCHANGED <<childVars, fieldVars, connected, evThread, evPending, logVars, lockVars,
                   fgVars, obsVars,
                   serverVars>>

(***************************************************************************)
(* Session::request_shutdown and join_workers (harness.rs 385-415), run by *)
(* Session::shutdown (381-383) and by Drop (418-422).  Session::shutdown   *)
(* is a run as "request_shutdown" followed by the run of "drop".           *)
(***************************************************************************)
\* `if let Some(client) = &self.client { let _ = client.send(Shutdown); }`
SendsShutdown(cl) == cl = "Some"

\* `while start.elapsed() < timeout`, the time counted in 10 ms sleeps.
InPollWindow(e) == e < PollWindow

\* `if let Some(_status) = self.child.try_wait()? { take; join; return Ok }`
\* and the sleep otherwise: what the loop does on each outcome of try_wait.
PollResult(r) ==
    CASE r = "err" -> "Io"
      [] r = "exited" -> "release"
      [] OTHER -> "sleep"

\* self.client.take()
TakeClient(cl) == "None"

\* A run of the shutdown sequence starts.
CallRequestShutdown(method) ==
    /\ runs < MaxRuns
    /\ Enter(method, "sd_send")
    /\ runs' = runs + 1
    /\ UNCHANGED <<childVars, fieldVars, envVars, localVars, sent, killCalls,
                   waitCalls, joinCalls, lines, completed,
                   serverVars>>

\* Lines 386-391: the best-effort Shutdown request, then `start`.
SdSend ==
    /\ pc = "sd_send"
    /\ sent' = IF SendsShutdown(client) THEN Append(sent, ShutdownRequest) ELSE sent
    /\ elapsed' = 0
    /\ Goto(IF InPollWindow(0) THEN "sd_poll" ELSE "sd_kill")
    /\ UNCHANGED <<childVars, fieldVars, envVars, op, ticks, entity_id,
                   start_tick, target_tick, waited, deadline, spawns, reply, addr, path, killCalls,
                   waitCalls, joinCalls, runs, lines, completed,
                   serverVars>>

\* Lines 392-397: one poll of the exit status; a running child is followed
\* by the sleep (which takes at least 10 ms) and the loop test.
SdPoll ==
    /\ pc = "sd_poll"
    /\ \E r \in TryWaitOutcomes :
        /\ child_status' = IF r = "exited" THEN "Some" ELSE child_status
        /\ CASE PollResult(r) = "Io" ->
                  /\ Return("Io")
                  /\ UNCHANGED client
             [] PollResult(r) = "release" ->
                  /\ client' = TakeClient(client)
                  /\ Goto("sd_join_log")
                  /\ UNCHANGED localVars
             [] OTHER ->
                  /\ \E e \in (elapsed + 1)..PollWindow :
                        /\ elapsed' = e
                        /\ Goto(IF InPollWindow(e) THEN "sd_poll" ELSE "sd_kill")
                  /\ UNCHANGED <<client, ticks, entity_id, start_tick,
                                 target_tick, waited, deadline, spawns, reply, addr>>
    /\ UNCHANGED <<child_exited, log_buffer, event_buffer, log_collector,
                   event_collector, max_tick, tick_wait, entity_dimensions,
                   entities, envVars, op, path, sent, killCalls, waitCalls,
                   joinCalls, runs, lines, completed,
                   serverVars>>

\* `let _ = self.child.kill();`
SdKill ==
    /\ pc = "sd_kill"
    /\ killCalls' = killCalls + 1
    /\ \E k \in KillOutcomes :
        child_exited' = IF k = "ok" THEN TRUE ELSE child_exited
    /\ Goto("sd_wait")
    /\ UNCHANGED <<child_status, fieldVars, envVars, op, localVars, path, sent,
                   waitCalls, joinCalls, runs, lines, completed,
                   serverVars>>

\* `let _ = self.child.wait(); self.client.take();`
SdWait ==
    /\ pc = "sd_wait"
    /\ waitCalls' = waitCalls + 1
    /\ \E w \in WaitOutcomes :
        child_status' = IF w = "ok" THEN "Some" ELSE child_status
    /\ client' = TakeClient(client)
    /\ Goto("sd_join_log")
    /\ UNCHANGED <<child_exited, log_buffer, event_buffer, log_collector,
                   event_collector, max_tick, tick_wait, entity_dimensions,
                   entities, envVars, op, localVars, path, sent, killCalls,
                   joinCalls, runs, lines, completed,
                   serverVars>>

\* join_workers, `if let Some(handle) = self.log_collector.take() { join }`:
\* join returns once the thread has ended.
SdJoinLog ==
    /\ pc = "sd_join_log"
    /\ IF log_collector = "Some"
       THEN /\ logThread = "ended"
            /\ log_collector' = "None"
            /\ joinCalls' = joinCalls + 1
       ELSE UNCHANGED <<log_collector, joinCalls>>
    /\ Goto("sd_join_ev")
    /\ UNCHANGED <<childVars, client, log_buffer, event_buffer, event_collector,
                   max_tick, tick_wait, entity_dimensions, entities, envVars,
                   op, localVars, path, sent, killCalls, waitCalls, runs, lines,
                   completed,
                   serverVars>>

\* join_workers, the event collector; then `Ok(())`.
SdJoinEv ==
    /\ pc = "sd_join_ev"
    /\ IF event_collector = "Some"
       THEN /\ evThread = "ended"
            /\ event_collector' = "None"
            /\ joinCalls' = joinCalls + 1
       ELSE UNCHANGED <<event_collector, joinCalls>>
    /\ Return("Ok")
    /\ completed' = TRUE
    /\ UNCHANGED <<childVars, client, log_buffer, event_buffer, log_collector,
                   max_tick, tick_wait, entity_dimensions, entities, envVars,
                   op, path, sent, killCalls, waitCalls, runs, lines,
                   serverVars>>

ShutdownSteps ==
    \/ SdSend
    \/ SdPoll
    \/ SdKill
    \/ SdWait
    \/ SdJoinLog
    \/ SdJoinEv

(***************************************************************************)
(* Session::refresh_entities (harness.rs 218-245) and                      *)
(* Session::telemetry_for (292-310).                                       *)
(***************************************************************************)
\* Mutant: the query goes on without looking at the client.
ClientOrClosed_Unchecked(cl) == "client"

\* `self.client.as_ref().ok_or(HarnessError::ConnectionClosed)?`
ClientOrClosed(cl) == IF cl = "Some" THEN "client" ELSE "ConnectionClosed"

SendErr == [kind |-> "SendErr"]
ErrorResponse == [kind |-> "Error"]
Listed(st, l) == [kind |-> "Listed", status |-> st, entities |-> l]
InspectResult(st, e) == [kind |-> "InspectResult", status |-> st, entity |-> e]
Spawned(st, e) == [kind |-> "Spawned", status |-> st, entity |-> e]

\* What Client::send(List) may come back with; a closed connection fails it.
ListResponses ==
    IF connected
    THEN {SendErr, ErrorResponse}
           \cup {Listed(st, l) : st \in {"Ok", "NotFound"}, l \in EntityLists}
    ELSE {SendErr}

\* What Client::send(Inspect) may come back with: any status with or without
\* a record.
InspectResponses ==
    IF connected
    THEN {SendErr, ErrorResponse}
           \cup {InspectResult(st, e) :
                    st \in {"Ok", "NotFound"},
                    e \in {None} \cup {Some(Summary(id, 0)) : id \in EntityIds}}
    ELSE {SendErr}

\* What Client::send(Spawn) may come back with.
SpawnResponses ==
    IF connected
    THEN {SendErr, ErrorResponse, Listed("Ok", <<>>)}
           \cup {Spawned(st, Summary(id, d)) :
                    st \in {"Ok", "Invalid"}, id \in EntityIds, d \in 0..1}
    ELSE {SendErr}

\* Client::send as its caller sees it: the request goes out and the caller
\* blocks until the response, or the failure, is there.
Send(request, wait) ==
    /\ sent' = Append(sent, request)
    /\ Goto(wait)
    /\ UNCHANGED localVars

\* The positions at which the foreground thread waits inside Client::send.
Awaiting == {"rs_reply", "at_reply", "rf_reply", "tf_reply"}

\* What an engine may answer to a request.
Replies(request) ==
    CASE request.req = "Spawn" -> SpawnResponses
      [] request.req = "List" -> ListResponses
      [] request.req = "Inspect" -> InspectResponses
      [] OTHER -> {SendErr}

\* Client::send returns: the response to the request sent last.
ClientRecv ==
    /\ pc \in Awaiting
    /\ reply = None
    /\ \E resp \in Replies(sent[Len(sent)]) : reply' = Some(resp)
    /\ UNCHANGED <<childVars, fieldVars, envVars, pc, op, ticks, entity_id,
                   start_tick, target_tick, waited, deadline, elapsed, spawns,
                   addr, handle, alive, obsVars,
                   serverVars>>

\* The dimension cached for an id.
DimensionOf(id) == CHOOSE d \in 0..1 : <<id, d>> \in entity_dimensions

\* Mutant: the status of the listing is not looked at.
RefreshResult_AnyStatus(resp) ==
    CASE resp.kind = "SendErr" -> "Protocol"
      [] resp.kind = "Listed" -> "Ok"
      [] OTHER -> "UnexpectedResponse"

\* refresh_entities' result for a response (`?` on send, then the match).
RefreshResult(resp) ==
    CASE resp.kind = "SendErr" -> "Protocol"
      [] resp.kind = "Listed" ->
            IF resp.status # "Ok" THEN "UnexpectedResponse" ELSE "Ok"
      [] OTHER -> "UnexpectedResponse"

\* Mutant: a response without a record is taken for an error.
TelemetryResult_NoneIsError(resp) ==
    CASE resp.kind = "SendErr" -> "Protocol"
      [] resp.kind = "InspectResult" ->
            IF resp.entity # None THEN "Ok(Some)" ELSE "UnexpectedResponse"
      [] OTHER -> "UnexpectedResponse"

\* telemetry_for's result for a response: `InspectResult { entity, .. }`
\* gives Ok(entity) whatever the status.
TelemetryResult(resp) ==
    CASE resp.kind = "SendErr" -> "Protocol"
      [] resp.kind = "InspectResult" ->
            IF resp.entity # None THEN "Ok(Some)" ELSE "Ok(None)"
      [] OTHER -> "UnexpectedResponse"

\* Mutant: the listing is stored before its status is looked at.
CacheReplaced_AnyListing(resp) == resp.kind = "Listed"

\* Lines 238-242 are reached only when neither `?` nor the match has
\* returned an error.
CacheReplaced(resp) == RefreshResult(resp) = "Ok"

CallRefreshEntities ==
    /\ Len(sent) < MaxSent
    /\ Enter("refresh_entities", "rf_entry")
    /\ UNCHANGED <<childVars, fieldVars, envVars, localVars, sent, killCalls,
                   waitCalls, joinCalls, runs, lines, completed,
                   serverVars>>

\* Lines 219-224: the client, then `client.send(ServerRequest::List)?`.
RefreshEntities ==
    /\ pc = "rf_entry"
    /\ IF ClientOrClosed(client) = "ConnectionClosed"
       THEN /\ Return("ConnectionClosed")
            /\ UNCHANGED sent
       ELSE Send(ListRequest, "rf_reply")
    /\ UNCHANGED <<childVars, fieldVars, envVars, op, path, killCalls, waitCalls,
                   joinCalls, runs, lines, completed,
                   serverVars>>

\* Lines 224-244: the match on the response and the replacement of the cache.
RfMatch ==
    /\ pc = "rf_reply"
    /\ reply # None
    /\ Return(RefreshResult(reply[1]))
    /\ IF CacheReplaced(reply[1])
       THEN /\ entity_dimensions' = IndexOf(reply[1].entities)
            /\ entities' = reply[1].entities
       ELSE UNCHANGED <<entity_dimensions, entities>>
    /\ UNCHANGED <<childVars, client, log_buffer, event_buffer, log_collector,
                   event_collector, max_tick, tick_wait, envVars, op, path, sent,
                   killCalls, waitCalls, joinCalls, runs, lines, completed,
                   serverVars>>

CallTelemetryFor(id) ==
    /\ Len(sent) < MaxSent
    /\ Enter("telemetry_for", "tf_entry")
    /\ entity_id' = id
    /\ lines' = <<>>
    /\ UNCHANGED <<childVars, fieldVars, envVars, ticks, start_tick, target_tick,
                   waited, deadline, elapsed, spawns, reply, addr, sent, killCalls, waitCalls,
                   joinCalls, runs, completed,
                   serverVars>>

\* Lines 293-303: the cached dimension, the client, then
\* `client.send(ServerRequest::Inspect { dimension, entity_id })?`.
TelemetryFor ==
    /\ pc = "tf_entry"
    /\ IF entity_id \notin CachedIds
       THEN /\ Return("Ok(None)")
            /\ UNCHANGED sent
       ELSE IF ClientOrClosed(client) = "ConnectionClosed"
       THEN /\ Return("ConnectionClosed")
            /\ UNCHANGED sent
       ELSE Send(InspectRequest(DimensionOf(entity_id), entity_id), "tf_reply")
    /\ UNCHANGED <<childVars, fieldVars, envVars, op, path, killCalls, waitCalls,
                   joinCalls, runs, lines, completed,
                   serverVars>>

\* Lines 304-309: the match on the response.
TfMatch ==
    /\ pc = "tf_reply"
    /\ reply # None
    /\ Return(TelemetryResult(reply[1]))
    /\ lines' = IF reply[1].kind = "InspectResult" THEN reply[1].entity ELSE <<>>
    /\ UNCHANGED <<childVars, fieldVars, envVars, op, path, sent, killCalls,
                   waitCalls, joinCalls, runs, completed,
                   serverVars>>

QuerySteps ==
    \/ RefreshEntities
    \/ RfMatch
    \/ TelemetryFor
    \/ TfMatch
    \/ ClientRecv

(***************************************************************************)
(* A Session through its shutdown.  It starts as finish_session built it,  *)
(* or after an advance_ticks that found the engine gone (exit status       *)
(* cached).  The queries may be called before, between and after the runs  *)
(* of the sequence, as code of the module itself may call them.  The log   *)
(* readers end with the engine; what they forward is followed in           *)
(* BufferSpec and StartupSpec.                                             *)
(***************************************************************************)
ShutdownInit ==
    /\ child_exited \in BOOLEAN
    /\ child_status \in {"None", "Some"}
    /\ child_status = "Some" => child_exited
    /\ connected = TRUE
    /\ SessionBuilt
    /\ FreshForeground
    /\ ServerStarted

ShutdownNext ==
    \/ \E m \in {"request_shutdown", "drop"} : CallRequestShutdown(m)
    \/ ShutdownSteps
    \/ CallRefreshEntities
    \/ \E id \in EntityIds : CallTelemetryFor(id)
    \/ QuerySteps
    \/ ChildExit
    \/ Disconnect
    \/ EventCollectorEnd
    \/ \E st \in Streams : ReaderEnd(st)
    \/ LogCollectorEnd

ShutdownSpec == ShutdownInit /\ [][ShutdownNext]_vars

(***************************************************************************)
(* Claims about the shutdown sequence.                                     *)
(***************************************************************************)
SdOps == {"request_shutdown", "drop"}
SdPcs == {"sd_send", "sd_poll", "sd_kill", "sd_wait", "sd_join_log", "sd_join_ev"}

\* A run of the shutdown sequence has returned and nothing was called since.
SdReturned == pc = "idle" /\ op \in SdOps /\ ret # "none"

\* C6, as claimed: when a run of the shutdown sequence has returned, the
\* child has exited, the client is None and both collectors are joined; and
\* kill is called only after the poll window has passed with no poll seeing
\* the child exited.
C6_AsClaimed ==
    /\ [](SdReturned =>
            /\ child_exited
            /\ client = "None"
            /\ log_collector = "None" /\ logThread = "ended"
            /\ event_collector = "None" /\ evThread = "ended")
    /\ [][killCalls' # killCalls =>
            /\ ~InPollWindow(elapsed)
            /\ child_status = "None"]_vars

\* C7, as claimed: a run of the shutdown sequence after a completed one sends
\* nothing, calls neither kill nor wait nor join, leaves the session's fields
\* unchanged and returns Ok.
C7_AsClaimed ==
    [][(completed /\ pc \in SdPcs /\ pc' # pc) =>
          /\ UNCHANGED <<sent, killCalls, waitCalls, joinCalls, fieldVars,
                         child_exited>>
          /\ (pc' = "idle" => ret' = "Ok")]_vars

\* C8, as claimed: every run of the shutdown sequence returns Ok, with the
\* client released and both collectors joined.
C8_AsClaimed ==
    SdReturned =>
        /\ ret = "Ok"
        /\ client = "None"
        /\ log_collector = "None"
        /\ event_collector = "None"

\* C10, as claimed: the client is Some before the first run of the shutdown
\* sequence starts and None from its start on.
C10_AsClaimed ==
    /\ (runs = 0 => client = "Some")
    /\ (runs > 0 => client = "None")

\* C10, amended: the client is Some before the first run of the shutdown
\* sequence starts; it becomes None only inside a run, when the run has seen
\* the child exited or has killed and waited for it, and stays None from then
\* on; it is None whenever a run has completed.  refresh_entities, and
\* telemetry_for of a cached id, reached with the client None return
\* ConnectionClosed and send nothing.
C10_ClientReleasedByCompletedShutdown ==
    /\ [](runs = 0 => client = "Some")
    /\ [](completed => client = "None")
    /\ [](client = "None" => completed \/ pc \in {"sd_join_log", "sd_join_ev"})
    /\ [][client = "None" => client' = "None"]_vars
    /\ [][client' # client => pc \in {"sd_poll", "sd_wait"}]_vars
    /\ [][(pc = "rf_entry" /\ client = "None" /\ pc' # pc) =>
             /\ pc' = "idle"
             /\ ret' = "ConnectionClosed"
             /\ sent' = sent]_vars
    /\ [][(pc = "tf_entry" /\ entity_id \in CachedIds /\ client = "None" /\ pc' # pc) =>
             /\ pc' = "idle"
             /\ ret' = "ConnectionClosed"
             /\ sent' = sent]_vars

\* C10 witness: after a completed shutdown run, telemetry_for of a cached id
\* has returned ConnectionClosed with nothing sent but the Shutdown request.
C10_Witness ==
    /\ pc = "idle"
    /\ op = "telemetry_for"
    /\ ret = "ConnectionClosed"
    /\ client = "None"
    /\ completed
    /\ sent = <<ShutdownRequest>>

(***************************************************************************)
(* Session::logs_for (harness.rs 313-352) and Session::all_logs (355-378). *)
(* Each takes the lock of the log buffer, copies from it, releases it, and *)
(* then does the same with the event buffer, so a collector may push       *)
(* between the two reads.  No thread panics while it holds a lock, so      *)
(* `lock()` is always Ok.                                                  *)
(***************************************************************************)
\* The numbers below ten whose decimal text occurs in `text`, for the texts
\* of the model (`text.contains(&entity_id.to_string())`).
DigitsIn(piece) ==
    CASE piece = "127.0.0.1:4000" -> {0, 1, 2, 4, 7}
      [] piece = "127.0.0.1:5000" -> {0, 1, 2, 5, 7}
      [] piece = "1" -> {1}
      [] OTHER -> {}

NumbersIn(text) == UNION { DigitsIn(text[i]) : i \in 1..Len(text) }

contains(text, id) == id \in NumbersIn(text)

Map(seq, F(_)) == [i \in 1..Len(seq) |-> F(seq[i])]

\* Lines 335-338 and 341-344.
EntityEventLine(e) ==
    IF e.kind = "Telemetry"
    THEN [stream |-> "Event",
          line |-> [format |-> "tick {tick} [{ship}]: {message}", tick |-> e.tick]]
    ELSE [stream |-> "Event", line |-> e.message]

\* Mutant: the line of an event keeps the tag of the engine's stdout.
EventLine_Stdout(e) ==
    IF e.kind = "Telemetry"
    THEN [stream |-> "Stdout",
          line |-> [format |-> "entity {id} tick {tick} [{ship}]: {message}",
                    id |-> e.id, tick |-> e.tick]]
    ELSE [stream |-> "Stdout", line |-> e.message]

\* Lines 367-374.
EventLine(e) ==
    IF e.kind = "Telemetry"
    THEN [stream |-> "Event",
          line |-> [format |-> "entity {id} tick {tick} [{ship}]: {message}",
                    id |-> e.id, tick |-> e.tick]]
    ELSE [stream |-> "Event", line |-> e.message]

\* Lines 318-323: the lines of the log buffer that contain the id's text.
MatchingLogLines(buffer, id) ==
    SelectSeq(buffer, LAMBDA l : contains(l.line, id))

\* Lines 327-348: the events of the entity, as lines.
MatchingEventLines(events, id) ==
    Map(SelectSeq(events, LAMBDA e :
                     \/ e.kind = "Telemetry" /\ e.id = id
                     \/ e.kind = "Log" /\ contains(e.message, id)),
        EntityEventLine)

CallLogsFor(id) ==
    /\ Enter("logs_for", "lf_logs")
    /\ entity_id' = id
    /\ lines' = <<>>
    /\ UNCHANGED <<childVars, fieldVars, envVars, ticks, start_tick, target_tick,
                   waited, deadline, elapsed, spawns, reply, addr, sent, killCalls, waitCalls,
                   joinCalls, runs, completed,
                   serverVars>>

LfLogs ==
    /\ pc = "lf_logs"
    /\ lines' = lines \o MatchingLogLines(log_buffer, entity_id)
    /\ Goto("lf_events")
    /\ UNCHANGED <<childVars, fieldVars, envVars, op, localVars, path, sent,
                   killCalls, waitCalls, joinCalls, runs, completed,
                   serverVars>>

LfEvents ==
    /\ pc = "lf_events"
    /\ lines' = lines \o MatchingEventLines(event_buffer, entity_id)
    /\ Return("lines")
    /\ UNCHANGED <<childVars, fieldVars, envVars, op, path, sent, killCalls,
                   waitCalls, joinCalls, runs, completed,
                   serverVars>>

CallAllLogs ==
    /\ Enter("all_logs", "al_logs")
    /\ lines' = <<>>
    /\ UNCHANGED <<childVars, fieldVars, envVars, localVars, sent, killCalls,
                   waitCalls, joinCalls, runs, completed,
                   serverVars>>

AlLogs ==
    /\ pc = "al_logs"
    /\ lines' = lines \o log_buffer
    /\ Goto("al_events")
    /\ UNCHANGED <<childVars, fieldVars, envVars, op, localVars, path, sent,
                   killCalls, waitCalls, joinCalls, runs, completed,
                   serverVars>>

AlEvents ==
    /\ pc = "al_events"
    /\ lines' = lines \o Map(event_buffer, EventLine)
    /\ Return("lines")
    /\ UNCHANGED <<childVars, fieldVars, envVars, op, path, sent, killCalls,
                   waitCalls, joinCalls, runs, completed,
                   serverVars>>

LogSteps ==
    \/ LfLogs
    \/ LfEvents
    \/ AlLogs
    \/ AlEvents

(***************************************************************************)
(* A Session with every one of its operations, the two collectors and the  *)
(* log readers: the life of the two buffers.                               *)
(***************************************************************************)
BufferEvents == {Telemetry(1, 1), LogEvent}

BufferInit ==
    /\ Init
    /\ tick_wait = 1
    /\ entities = <<Summary(1, 0)>>

\* The test calls one operation of the session, and the session is dropped
\* at the end of the test.
Rank(method) ==
    CASE method = "none" -> 0
      [] method = "drop" -> 2
      [] OTHER -> 1

InOrder(method) == Rank(op) < Rank(method)

TestLogsFor == InOrder("logs_for") /\ \E id \in EntityIds : CallLogsFor(id)
TestAllLogs == InOrder("all_logs") /\ CallAllLogs
TestRefreshEntities == InOrder("refresh_entities") /\ CallRefreshEntities
TestTelemetryFor ==
    InOrder("telemetry_for") /\ \E id \in EntityIds : CallTelemetryFor(id)
TestAdvanceTicks ==
    InOrder("advance_ticks") /\ \E n \in 0..1 : CallAdvanceTicks(n)
TestShutdown == InOrder("shutdown") /\ CallRequestShutdown("shutdown")
TestDrop == InOrder("drop") /\ CallRequestShutdown("drop")

BufferNext ==
    \/ TestLogsFor
    \/ TestAllLogs
    \/ TestRefreshEntities
    \/ TestTelemetryFor
    \/ TestAdvanceTicks
    \/ TestShutdown
    \/ TestDrop
    \/ LogSteps
    \/ QuerySteps
    \/ AdvanceSteps
    \/ ShutdownSteps
    \/ ChildExit
    \/ Disconnect
    \/ \E l \in LogLines : ReaderSend(l)
    \/ \E st \in Streams : ReaderEnd(st)
    \/ LogCollectorRecv
    \/ LogCollectorEnd
    \/ \E e \in BufferEvents : EventCollectorRecv(e)
    \/ EventCollectorFetchMax
    \/ EventCollectorEnd

BufferSpec == BufferInit /\ [][BufferNext]_vars

(***************************************************************************)
(* The two buffers' Mutexes, step by step: spawn_log_collector (477-488),  *)
(* spawn_event_collector (490-506), logs_for (313-352) and all_logs        *)
(* (355-378).  A guard lives to the end of its `if let` block.             *)
(***************************************************************************)
\* Mutant: the guard outlives its block.
drop_guard_Kept(holder) == holder

\* The MutexGuard is dropped at the end of the `if let Ok(guard) = ..` block.
drop_guard(holder) == "free"

\* Line 482: `log_rx.recv()` returns a line.
LcRecv ==
    /\ logThread = "running"
    /\ lc_line = None
    /\ log_chan # <<>>
    /\ lc_line' = Some(recv(log_chan))
    /\ log_chan' = Tail(log_chan)
    /\ UNCHANGED <<childVars, fieldVars, connected, logThread, evThread,
                   evPending, readers, delivered, log_lock, event_lock,
                   ec_event, fgVars, obsVars,
                   serverVars>>

\* Line 483: `buffer.lock()`.
LcLock ==
    /\ lc_line # None
    /\ log_lock = "free"
    /\ log_lock' = "log_collector"
    /\ UNCHANGED <<childVars, fieldVars, connected, logThread, evThread,
                   evPending, logVars, event_lock, lc_line, ec_event, fgVars,
                   obsVars,
                   serverVars>>

\* Lines 484-485: `guard.push(line)` and the end of the block.
LcPush ==
    /\ log_lock = "log_collector"
    /\ log_buffer' = Push(log_buffer, lc_line[1])
    /\ lc_line' = None
    /\ log_lock' = drop_guard(log_lock)
    /\ UNCHANGED <<childVars, client, event_buffer, log_collector,
                   event_collector, max_tick, tick_wait, entity_dimensions,
                   entities, connected, logThread, evThread, evPending, logVars,
                   event_lock, ec_event, fgVars, obsVars,
                   serverVars>>

\* Line 482: recv fails, the thread being at recv.
LcEnd ==
    /\ lc_line = None
    /\ LogCollectorEnd

\* Line 496: `event_rx.recv()` returns an event.
EcRecv(e) ==
    /\ evThread = "running"
    /\ evPending = NoTick
    /\ ec_event = None
    /\ client = "Some"
    /\ connected
    /\ Len(event_buffer) < MaxEvents
    /\ ec_event' = Some(e)
    /\ UNCHANGED <<childVars, fieldVars, connected, logThread, evThread,
                   evPending, logVars, log_lock, event_lock, lc_line, fgVars,
                   obsVars,
                   serverVars>>

\* Line 497: `buffer.lock()`.
EcLock ==
    /\ ec_event # None
    /\ event_lock = "free"
    /\ event_lock' = "event_collector"
    /\ UNCHANGED <<childVars, fieldVars, connected, logThread, evThread,
                   evPending, logVars, log_lock, lc_line, ec_event, fgVars,
                   obsVars,
                   serverVars>>

\* Lines 498-499: `guard.push(event.clone())` and the end of the block; the
\* fetch_max of line 502 follows.
EcPush ==
    /\ event_lock = "event_collector"
    /\ event_buffer' = Push(event_buffer, ec_event[1])
    /\ evPending' = IF ec_event[1].kind = "Telemetry" THEN ec_event[1].tick
                                                       ELSE NoTick
    /\ ec_event' = None
    /\ event_lock' = drop_guard(event_lock)
    /\ UNCHANGED <<childVars, client, log_buffer, log_collector, event_collector,
                   max_tick, tick_wait, entity_dimensions, entities, connected,
                   logThread, evThread, logVars, log_lock, lc_line, fgVars,
                   obsVars,
                   serverVars>>

\* Line 496: recv fails, the thread being at recv.
EcEnd ==
    /\ ec_event = None
    /\ EventCollectorEnd

\* Lines 317 and 356: `self.log_buffer.lock()`.
FgLockLogs ==
    /\ pc \in {"lf_logs", "al_logs"}
    /\ log_lock = "free"
    /\ log_lock' = "foreground"
    /\ Goto(IF pc = "lf_logs" THEN "lf_logs_held" ELSE "al_logs_held")
    /\ UNCHANGED <<childVars, fieldVars, connected, logThread, evThread,
                   evPending, logVars, event_lock, lc_line, ec_event, op,
                   localVars, path, sent, killCalls, waitCalls, joinCalls, runs,
                   lines, completed,
                   serverVars>>

\* Lines 318-324 and 357-358: the scan of the log buffer and the end of the
\* block.
FgScanLogs ==
    /\ pc \in {"lf_logs_held", "al_logs_held"}
    /\ lines' = lines \o IF pc = "lf_logs_held"
                         THEN MatchingLogLines(log_buffer, entity_id)
                         ELSE log_buffer
    /\ log_lock' = drop_guard(log_lock)
    /\ Goto(IF pc = "lf_logs_held" THEN "lf_events" ELSE "al_events")
    /\ UNCHANGED <<childVars, fieldVars, connected, logThread, evThread,
                   evPending, logVars, event_lock, lc_line, ec_event, op,
                   localVars, path, sent, killCalls, waitCalls, joinCalls, runs,
                   completed,
                   serverVars>>

\* Lines 327 and 359: `self.event_buffer.lock()`.
FgLockEvents ==
    /\ pc \in {"lf_events", "al_events"}
    /\ event_lock = "free"
    /\ event_lock' = "foreground"
    /\ Goto(IF pc = "lf_events" THEN "lf_events_held" ELSE "al_events_held")
    /\ UNCHANGED <<childVars, fieldVars, connected, logThread, evThread,
                   evPending, logVars, log_lock, lc_line, ec_event, op,
                   localVars, path, sent, killCalls, waitCalls, joinCalls, runs,
                   lines, completed,
                   serverVars>>

\* Lines 328-351 and 360-377: the scan of the event buffer, the end of the
\* block, and the return of the lines.
FgScanEvents ==
    /\ pc \in {"lf_events_held", "al_events_held"}
    /\ lines' = lines \o IF pc = "lf_events_held"
                         THEN MatchingEventLines(event_buffer, entity_id)
                         ELSE Map(event_buffer, EventLine)
    /\ event_lock' = drop_guard(event_lock)
    /\ Return("lines")
    /\ UNCHANGED <<childVars, fieldVars, connected, logThread, evThread,
                   evPending, logVars, log_lock, lc_line, ec_event, op, path,
                   sent, killCalls, waitCalls, joinCalls, runs, completed,
                   serverVars>>

LockNext ==
    \/ TestLogsFor
    \/ TestAllLogs
    \/ TestTelemetryFor
    \/ TestShutdown
    \/ FgLockLogs
    \/ FgScanLogs
    \/ FgLockEvents
    \/ FgScanEvents
    \/ TelemetryFor
    \/ TfMatch
    \/ ClientRecv
    \/ ShutdownSteps
    \/ ChildExit
    \/ Disconnect
    \/ \E l \in LogLines : ReaderSend(l)
    \/ \E st \in Streams : ReaderEnd(st)
    \/ LcRecv
    \/ LcLock
    \/ LcPush
    \/ LcEnd
    \/ \E e \in BufferEvents : EcRecv(e)
    \/ EcLock
    \/ EcPush
    \/ EventCollectorFetchMax
    \/ EcEnd

LockSpec == BufferInit /\ [][LockNext]_vars

\* C12: the log buffer and the event buffer are append-only: every step of
\* the session (logs_for, all_logs, refresh_entities, telemetry_for,
\* advance_ticks, shutdown and the collectors) leaves what each buffer held
\* in place, in order and unchanged, as a prefix of the buffer afterwards.
C12_BuffersAppendOnly ==
    [][/\ IsPrefix(log_buffer, log_buffer')
       /\ IsPrefix(event_buffer, event_buffer')]_vars

C12_Witness ==
    /\ pc = "idle"
    /\ op = "all_logs"
    /\ Len(lines) = 2
    /\ lines[2].stream = "Event"
    /\ Len(log_buffer) = 2
    /\ Len(event_buffer) = 2
    /\ event_buffer[1] # event_buffer[2]

(***************************************************************************)
(* EngineHarness::spawn (harness.rs 47-117) with wait_for_listen_address   *)
(* (440-467) and parse_listen_line (469-475).                              *)
(***************************************************************************)
\* Lines the engine may print while it starts.
BadListenLine ==
    [stream |-> "Stdout", line |-> <<"listening on", " ", "nowhere">>]
UpperListenLine ==
    [stream |-> "Stderr",
     line |-> <<"Server", " ", "LISTENING ON", " ", "127.0.0.1:5000">>]
NoiseLine == [stream |-> "Stderr", line |-> <<"loading", " ", "plugins">>]
StartupLines == {ListenLine, UpperListenLine, BadListenLine, NoiseLine}

\* The texts that parse as a SocketAddr.
SocketAddrs == {"127.0.0.1:4000", "127.0.0.1:5000"}

\* str::to_ascii_lowercase, piece by piece.
LowerPiece(piece) ==
    CASE piece \in {"LISTENING ON", "Listening On"} -> "listening on"
      [] piece = "Server" -> "server"
      [] OTHER -> piece

to_ascii_lowercase(text) == [i \in 1..Len(text) |-> LowerPiece(text[i])]

\* str::find: the position of the first occurrence, if any.
find(text, needle) ==
    IF \E i \in 1..Len(text) : text[i] = needle
    THEN Some(CHOOSE i \in 1..Len(text) :
                /\ text[i] = needle
                /\ \A j \in 1..(i - 1) : text[j] # needle)
    ELSE None

\* str::trim: without the blanks at both ends.
trim(text) ==
    LET solid == { i \in 1..Len(text) : text[i] # " " }
    IN  IF solid = {}
        THEN <<>>
        ELSE SubSeq(text, CHOOSE i \in solid : \A j \in solid : i <= j,
                          CHOOSE i \in solid : \A j \in solid : j <= i)

\* Mutant: whatever follows is taken for an address.
parse_Any(text) == Some("127.0.0.1:4000")

\* `after.parse().ok()` for a SocketAddr.
parse(text) ==
    IF Len(text) = 1 /\ text[1] \in SocketAddrs THEN Some(text[1]) ELSE None

\* parse_listen_line: the text after the first "listening on" (found without
\* regard to case), trimmed, parsed as a socket address.
parse_listen_line(line) ==
    LET needle == "listening on"
        lower == to_ascii_lowercase(line)
        idx == find(lower, needle)
    IN  IF idx = None
        THEN None
        ELSE parse(trim(SubSeq(line, idx[1] + 1, Len(line))))

\* `while start.elapsed() < timeout`, the time counted in 50 ms units.
InStartupWindow(e) == e < StartupWindow

CallSpawn ==
    /\ handle = "none"
    /\ ret = "none"
    /\ Begin("spawn", "sp_spawn")
    /\ UNCHANGED <<childVars, fieldVars, envVars, localVars, sent, killCalls,
                   waitCalls, joinCalls, runs, lines, completed,
                   serverVars>>

\* Lines 78-93: cmd.spawn() starts the engine or fails; then the two log
\* readers, the channel, and `start` of wait_for_listen_address.
SpSpawn ==
    /\ pc = "sp_spawn"
    /\ \/ /\ Finish("EngineStart")
          /\ UNCHANGED <<handle, alive, readers>>
       \/ /\ handle' = "local"
          /\ readers' = Streams
          /\ pc' = IF InStartupWindow(0) THEN "sp_try_wait" ELSE "sp_timeout"
          /\ UNCHANGED <<ret, alive, localVars>>
    /\ UNCHANGED <<childVars, fieldVars, connected, logThread, evThread,
                   evPending, log_chan, delivered, lockVars, op, path, sent, killCalls,
                   waitCalls, joinCalls, runs, lines, completed,
                   serverVars>>

\* Lines 448-450: `if let Some(status) = child.try_wait()? { return Err(..) }`.
\* An error return of spawn drops the local Child.
SpTryWait ==
    /\ pc = "sp_try_wait"
    /\ \E r \in TryWaitOutcomes :
        /\ child_status' = IF r = "exited" THEN "Some" ELSE child_status
        /\ IF TryWaitResult(r) = "continue"
           THEN /\ Goto("sp_recv")
                /\ UNCHANGED localVars
           ELSE /\ Finish(TryWaitResult(r))
                /\ handle' = "dropped"
                /\ UNCHANGED alive
    /\ UNCHANGED <<child_exited, fieldVars, envVars, op, path, sent, killCalls,
                   waitCalls, joinCalls, runs, lines, completed,
                   serverVars>>

\* Lines 452-463: log_rx.recv_timeout(50 ms).  Ok(line): the line at the head
\* of the channel is pushed to the log buffer and parsed.  Timeout: no line
\* arrived within 50 ms.  Disconnected: the channel is empty and both readers
\* have dropped their senders; the loop is left by `break`.
SpRecv ==
    /\ pc = "sp_recv"
    /\ \/ /\ log_chan # <<>>
          /\ log_buffer' = Push(log_buffer, recv(log_chan))
          /\ log_chan' = Tail(log_chan)
          /\ IF parse_listen_line(recv(log_chan).line) # None
             THEN /\ Goto("sp_connect")
                  /\ addr' = parse_listen_line(recv(log_chan).line)
                  /\ UNCHANGED <<ticks, entity_id, start_tick, target_tick,
                                 waited, deadline, elapsed, spawns, reply>>
             ELSE \E e \in elapsed..StartupWindow :
                    /\ elapsed' = e
                    /\ Goto(IF InStartupWindow(e) THEN "sp_try_wait" ELSE "sp_timeout")
                    /\ UNCHANGED <<ticks, entity_id, start_tick, target_tick,
                                   waited, deadline, spawns, reply, addr>>
       \/ /\ log_chan = <<>>
          /\ readers # {}
          /\ \E e \in (elapsed + 1)..StartupWindow :
                /\ elapsed' = e
                /\ Goto(IF InStartupWindow(e) THEN "sp_try_wait" ELSE "sp_timeout")
          /\ UNCHANGED <<log_buffer, log_chan, ticks, entity_id, start_tick,
                         target_tick, waited, deadline, spawns, reply, addr>>
       \/ /\ log_chan = <<>>
          /\ readers = {}
          /\ Goto("sp_timeout")
          /\ UNCHANGED <<log_buffer, log_chan, localVars>>
    /\ UNCHANGED <<childVars, client, event_buffer, log_collector,
                   event_collector, max_tick, tick_wait, entity_dimensions,
                   entities, connected, logThread, evThread, evPending,
                   readers, delivered, lockVars, op, path, sent, killCalls, waitCalls,
                   joinCalls, runs, lines, completed,
                   serverVars>>

\* Line 466: `Err(HarnessError::StartupTimeout(timeout))`, passed on by `?`.
SpTimeout ==
    /\ pc = "sp_timeout"
    /\ Finish("StartupTimeout")
    /\ handle' = "dropped"
    /\ UNCHANGED <<alive, childVars, fieldVars, envVars, op, path, sent,
                   killCalls, waitCalls, joinCalls, runs, lines, completed,
                   serverVars>>

\* Lines 98-116: the log collector starts; Client::connect(address)? fails or
\* gives the client, and then the event collector starts and the
\* EngineHarness takes the Child.  Only a running engine accepts.
SpConnect ==
    /\ pc = "sp_connect"
    /\ logThread' = "running"
    /\ \/ /\ Finish("Protocol")
          /\ handle' = "dropped"
          /\ UNCHANGED <<client, connected, evThread>>
       \/ /\ ~child_exited
          /\ Finish("Ok")
          /\ handle' = "harness"
          /\ client' = "Some"
          /\ connected' = TRUE
          /\ evThread' = "running"
    /\ UNCHANGED <<alive, childVars, log_buffer, event_buffer, log_collector,
                   event_collector, max_tick, tick_wait, entity_dimensions,
                   entities, evPending, logVars, lockVars, op, path, sent, killCalls,
                   waitCalls, joinCalls, runs, lines, completed,
                   serverVars>>

SpawnSteps ==
    \/ SpSpawn
    \/ SpTryWait
    \/ SpRecv
    \/ SpTimeout
    \/ SpConnect

(***************************************************************************)
(* EngineHarness::run_scenario (harness.rs 120-152), attach (155-174) and  *)
(* finish_session (176-194).  Both take the EngineHarness by value: an     *)
(* error return drops it, and with it the Child and the Client.            *)
(***************************************************************************)
SpawnSpec(type, dim) == [entity_type |-> type, dimension |-> dim]

\* ScenarioConfig.spawns of the scenarios run.
Scenarios ==
    { <<>>, <<SpawnSpec("probe", 0)>>, <<SpawnSpec("probe", 1), SpawnSpec("rock", 0)>> }

\* Mutant: the status of a Spawned response is not looked at.
SpawnResult_AnyStatus(resp) ==
    CASE resp.kind = "SendErr" -> "Protocol"
      [] resp.kind = "Spawned" -> "push"
      [] OTHER -> "UnexpectedResponse"

\* run_scenario's match on the response of one spawn (lines 124-148).
SpawnResult(resp) ==
    CASE resp.kind = "SendErr" -> "Protocol"
      [] resp.kind = "Spawned" ->
            IF resp.status # "Ok" THEN "UnexpectedResponse" ELSE "push"
      [] OTHER -> "UnexpectedResponse"

\* attach's match on the response of List (lines 156-171).
AttachResult(resp) ==
    CASE resp.kind = "SendErr" -> "Protocol"
      [] resp.kind = "Listed" ->
            IF resp.status # "Ok" THEN "UnexpectedResponse" ELSE "Ok"
      [] OTHER -> "UnexpectedResponse"

\* finish_session: the Session built from the harness and the entities.
FinishSession(list) ==
    /\ Finish("Ok")
    /\ entities' = list
    /\ entity_dimensions' = IndexOf(list)
    /\ log_collector' = "Some"
    /\ event_collector' = "Some"
    /\ handle' = "session"
    /\ alive' = TRUE
    /\ UNCHANGED client

\* The harness is dropped by an error return.
DropHarness(result) ==
    /\ Finish(result)
    /\ entities' = <<>>
    /\ client' = "None"
    /\ handle' = "dropped"
    /\ UNCHANGED <<alive, entity_dimensions, log_collector, event_collector>>

CallRunScenario(scenario) ==
    /\ handle = "harness"
    /\ Begin("run_scenario", "rs_loop")
    /\ spawns' = scenario
    /\ UNCHANGED <<childVars, fieldVars, envVars, ticks, entity_id, start_tick,
                   target_tick, waited, deadline, elapsed, reply, addr, sent,
                   killCalls,
                   waitCalls, joinCalls, runs, lines, completed,
                   serverVars>>

\* One turn of `for spec in scenario.spawns`: the spawn is sent; after the
\* last one, finish_session.
RsLoop ==
    /\ pc = "rs_loop"
    /\ IF spawns = <<>>
       THEN /\ FinishSession(entities)
            /\ UNCHANGED sent
       ELSE /\ Send(SpawnRequest(Head(spawns)), "rs_reply")
            /\ UNCHANGED <<client, entity_dimensions, entities, log_collector,
                           event_collector>>
    /\ UNCHANGED <<childVars, log_buffer, event_buffer, max_tick, tick_wait,
                   envVars, op, path, killCalls, waitCalls, joinCalls, runs, lines,
                   completed,
                   serverVars>>

\* Lines 124-148: the match on the response of one spawn.
RsMatch ==
    /\ pc = "rs_reply"
    /\ reply # None
    /\ IF SpawnResult(reply[1]) = "push"
       THEN /\ entities' = Append(entities, reply[1].entity)
            /\ spawns' = Tail(spawns)
            /\ reply' = None
            /\ Goto("rs_loop")
            /\ UNCHANGED <<client, entity_dimensions, log_collector,
                           event_collector, ticks, entity_id, start_tick,
                           target_tick, waited, deadline, elapsed, addr>>
       ELSE DropHarness(SpawnResult(reply[1]))
    /\ UNCHANGED <<childVars, log_buffer, event_buffer, max_tick, tick_wait,
                   envVars, op, path, sent, killCalls, waitCalls, joinCalls, runs,
                   lines, completed,
                   serverVars>>

CallAttach ==
    /\ handle = "harness"
    /\ Begin("attach", "at_send")
    /\ UNCHANGED <<childVars, fieldVars, envVars, localVars, sent, killCalls,
                   waitCalls, joinCalls, runs, lines, completed,
                   serverVars>>

\* Line 156: `self.client.send(ServerRequest::List)?`.
AtSend ==
    /\ pc = "at_send"
    /\ Send(ListRequest, "at_reply")
    /\ UNCHANGED <<childVars, fieldVars, envVars, op, path, killCalls, waitCalls,
                   joinCalls, runs, lines, completed,
                   serverVars>>

\* Lines 157-173: the match on the response, then finish_session.
AtMatch ==
    /\ pc = "at_reply"
    /\ reply # None
    /\ IF AttachResult(reply[1]) = "Ok"
       THEN FinishSession(reply[1].entities)
       ELSE DropHarness(AttachResult(reply[1]))
    /\ UNCHANGED <<childVars, log_buffer, event_buffer, max_tick, tick_wait,
                   envVars, op, path, sent, killCalls, waitCalls, joinCalls, runs,
                   lines, completed,
                   serverVars>>

(***************************************************************************)
(* From nothing to a Session: one spawn, then run_scenario or attach.      *)
(***************************************************************************)
StartupInit ==
    /\ child_exited = FALSE
    /\ child_status = "None"
    /\ client = "None"
    /\ log_buffer = <<>>
    /\ event_buffer = <<>>
    /\ log_collector = "None"
    /\ event_collector = "None"
    /\ max_tick = 0
    /\ tick_wait \in TickWaits
    /\ entity_dimensions = {}
    /\ entities = <<>>
    /\ connected = FALSE
    /\ logThread = "none"
    /\ evThread = "none"
    /\ evPending = NoTick
    /\ readers = {}
    /\ log_chan = <<>>
    /\ delivered = <<>>
    /\ LocksFree
    /\ handle = "none"
    /\ alive = FALSE
    /\ FreshForeground
    /\ ServerStarted

StartupNext ==
    \/ CallSpawn
    \/ SpawnSteps
    \/ \E sc \in Scenarios : CallRunScenario(sc)
    \/ RsLoop
    \/ RsMatch
    \/ CallAttach
    \/ AtSend
    \/ AtMatch
    \/ ClientRecv
    \/ ChildExit
    \/ Disconnect
    \/ \E l \in StartupLines : ReaderSend(l)
    \/ \E st \in Streams : ReaderEnd(st)
    \/ LogCollectorRecv
    \/ LogCollectorEnd
    \/ EventCollectorEnd

StartupSpec == StartupInit /\ [][StartupNext]_vars

\* spawn, run_scenario or attach has returned an error after the engine was
\* started.
StartupFailed ==
    /\ pc = "idle"
    /\ op \in {"spawn", "run_scenario", "attach"}
    /\ ret \notin {"none", "Ok"}
    /\ handle # "none"

\* C9, as claimed: whenever spawn has failed after the child was started, or
\* run_scenario or attach has returned an error, the child has been
\* terminated; no Child is dropped while its process runs.
C9_AsClaimed ==
    /\ (StartupFailed => child_exited)
    /\ (handle = "dropped" => child_exited)

\* C13: in every state the log buffer is a prefix of the sequence of lines
\* sent on the merged stdout/stderr channel, in the order of sending, while
\* the handshake receives, at the hand-over of the receiver and while the
\* log collector receives.
C13_LogBufferIsPrefixOfDelivered == IsPrefix(log_buffer, delivered)

\* The handshake pushed the listen line, the collector the line after it.
C13_Witness ==
    /\ handle \in {"harness", "session"}
    /\ logThread = "running"
    /\ log_buffer = <<ListenLine, NoiseLine>>
    /\ delivered = log_buffer

\* C14, as claimed: a handshake that ends after the child has exited, no
\* parseable listen line received, never makes spawn fail with
\* StartupTimeout.
C14_AsClaimed ==
    [][(/\ op = "spawn"
        /\ pc \in {"sp_try_wait", "sp_recv", "sp_timeout"}
        /\ pc' = "idle"
        /\ child_exited)
       => ret' # "StartupTimeout"]_vars

(***************************************************************************)
(* The reference server, crates/test_harness/src/bin/fake_engine.rs.       *)
(* main (16-72) reads one request frame at a time, dispatches it in        *)
(* handle_request (74-150) and writes the response; the telemetry thread   *)
(* (196-229) writes the events main queues and, when none is queued for    *)
(* 10 ms, an idle tick of its own.  Each access to an atomic, to the       *)
(* channel or to the connection is one step.  When main returns an error   *)
(* the process ends and the telemetry thread with it.                      *)
(*                                                                         *)
(* next_id and tick_counter are u64; the model never reaches 2^64 requests *)
(* or ticks, so they are plain naturals.                                   *)
(***************************************************************************)
EntityParameters(position, velocity, mass) ==
    [position |-> position, velocity |-> velocity, mass |-> mass]

ServerRequest(kind, type, parameters, dimension, id) ==
    [req |-> kind, entity_type |-> type, parameters |-> parameters,
     dimension |-> dimension, entity_id |-> id]

RequestEnvelope(id, payload) == [id |-> id, payload |-> payload]

\* Request payloads a client sends.
Spawns ==
    { ServerRequest("Spawn", "probe", EntityParameters(0, 0, 1), None, 0),
      ServerRequest("Spawn", "rock", EntityParameters(1, 2, 3), Some(1), 0) }
Inspects == { ServerRequest("Inspect", "", None, 0, id) : id \in EntityIds }
ListPayload == ServerRequest("List", "", None, None, 0)
ShutdownPayload == ServerRequest("Shutdown", "", None, None, 0)

\* Caller-assigned envelope ids.
RequestIds == {7, 9}

Envelopes(ids, payloads) ==
    { RequestEnvelope(id, p) : id \in ids, p \in payloads }

EntityRecord(id, dimension, kind, parameters) ==
    [dimension |-> dimension, entity_id |-> id, kind |-> kind,
     position |-> parameters.position, velocity |-> parameters.velocity,
     mass |-> parameters.mass]

EntitySummary(record) ==
    [dimension |-> record.dimension, entity_id |-> record.entity_id,
     kind |-> record.kind, position |-> record.position]

ShutdownResponse(status, message) ==
    [kind |-> "Shutdown", status |-> status, message |-> message]

InspectResponse(status, entity, message) ==
    [kind |-> "InspectResult", status |-> status, entity |-> entity,
     message |-> message]

\* Mutant: the envelope id is not copied.
ResponseEnvelope_NoEcho(env, payload) == [id |-> 0, payload |-> payload]

\* Lines 146-149: `ResponseEnvelope { id: envelope.id, payload: response }`.
ResponseEnvelope(env, payload) == [id |-> env.id, payload |-> payload]

\* A frame on the connection: a response envelope or an event.
ResponseFrame(resp) == [frame |-> "Response", id |-> resp.id, payload |-> resp.payload]
EventFrame(event) == [frame |-> "Event", id |-> 0, payload |-> event]

\* The first bytes of a frame, written by a `write` of write_all that took
\* only a part; the frame that follows from the same writer is its rest.
PartOf(kind) == [frame |-> "Part", id |-> 0, payload |-> [kind |-> kind]]

\* Mutant: the value after the addition.
fetch_add_New(counter) == counter + 1

\* AtomicU64::fetch_add(1): the value returned, the one before the addition.
fetch_add(counter) == counter

\* Mutant: the default is taken although a value was given.
unwrap_or_Default(option, default) == default

\* Option::unwrap_or
unwrap_or(option, default) == IF option = None THEN default ELSE option[1]

\* Mutant: the new entry replaces the map.
Insert_Alone(map, key, value) == [k \in {key} |-> value]

\* BTreeMap::insert
Insert(map, key, value) ==
    [k \in DOMAIN map \cup {key} |-> IF k = key THEN value ELSE map[k]]

\* BTreeMap::get(..).cloned()
Get(map, key) == IF key \in DOMAIN map THEN Some(map[key]) ELSE None

\* Mutant: the keys from the greatest to the least.
RECURSIVE Descending(_)
Descending(keys) ==
    IF keys = {}
    THEN <<>>
    ELSE LET k == CHOOSE x \in keys : \A y \in keys : y <= x
         IN  <<k>> \o Descending(keys \ {k})

\* The keys of a BTreeMap in its iteration order, ascending.
RECURSIVE Ascending(_)
Ascending(keys) ==
    IF keys = {}
    THEN <<>>
    ELSE LET k == CHOOSE x \in keys : \A y \in keys : x <= y
         IN  <<k>> \o Ascending(keys \ {k})

\* Lines 93-104: `map.values().map(|record| EntitySummary {..}).collect()`.
Summaries(map) ==
    LET keys == Ascending(DOMAIN map)
    IN  [i \in 1..Len(keys) |-> EntitySummary(map[keys[i]])]

\* Mutant: every Inspect is answered Ok.
InspectStatus_AlwaysOk(record) == "Ok"

\* Lines 122-126.
InspectStatus(record) == IF record # None THEN "Ok" ELSE "NotFound"

\* Mutant: the event does not carry the tick it was built for.
build_event_TickZero(t, map) ==
    Telemetry(IF DOMAIN map = {} THEN 0 ELSE Ascending(DOMAIN map)[1], 0)

\* Mutant: the event is never tagged with an entity.
build_event_Untagged(t, map) == Telemetry(0, t)

\* Lines 182-194: the first key of the store, or 0.
build_event(t, map) ==
    Telemetry(IF DOMAIN map = {} THEN 0 ELSE Ascending(DOMAIN map)[1], t)

\* Mutant: the loop goes on whatever the flag says.
LoopBreaks_Never(flag) == FALSE

\* Lines 52-54 and 57-59: `if !running.load(..) { break; }`.
LoopBreaks(flag) == ~flag

\* main returns an error by `?`: the process ends.
ProcessFails ==
    /\ main_pc' = "failed"
    /\ tel_pc' = "ended"

\* Line 40, read_frame.  Ok(frame) with a well-formed envelope; Ok(frame)
\* that from_bytes or from_slice rejects (41-42, `?`); WouldBlock after 50 ms
\* without data (56-61); any other error, the connection closed (62).
\* The client writes whole frames, so that the read starts at a frame
\* boundary and consumes nothing or a whole frame.
MainRead(envelopes) ==
    /\ main_pc = "read"
    /\ stream_pos = "boundary"
    /\ \/ /\ peer_open
          /\ Len(handled) < MaxRequests
          /\ \E env \in envelopes :
                /\ envelope' = Some(env)
                /\ handled' = Append(handled, env)
          /\ main_pc' = "dispatch"
          /\ UNCHANGED tel_pc
       \/ /\ peer_open
          /\ ProcessFails
          /\ UNCHANGED <<envelope, handled>>
       \/ /\ main_pc' = IF LoopBreaks(running) THEN "stop" ELSE "read"
          /\ UNCHANGED <<envelope, handled, tel_pc>>
       \/ /\ ~peer_open
          /\ main_pc' = "stop"
          /\ UNCHANGED <<envelope, handled, tel_pc>>
    /\ UNCHANGED <<harnessVars, sharedVars, response, tick, tel_event, tel_tick,
                   idle_ticks>>

\* Lines 242-249 with 22 and 56-62: read_frame when only a part of a frame
\* has arrived.  read_exact consumes the part; when the 50 ms read timeout
\* passes before the rest arrives it returns the timeout error, of kind
\* WouldBlock (the arm of lines 56-61) or TimedOut (line 62) depending on the
\* platform; when the client closes instead it returns UnexpectedEof (62).
\* The bytes consumed are gone: the next read starts inside the frame.
MainReadShort ==
    /\ main_pc = "read"
    /\ stream_pos = "boundary"
    /\ stream_pos' = "inside"
    /\ \/ /\ peer_open
          /\ main_pc' = IF LoopBreaks(running) THEN "stop" ELSE "read"
       \/ main_pc' = "stop"
    /\ UNCHANGED <<harnessVars, srv_entities, next_id, running, tick_counter,
                   event_queue, event_tx, wire, peer_open, envelope, response,
                   tick, telVars, handled, idle_ticks>>

\* read_frame called again after a short read: the bytes that follow are
\* taken for a length and a message.  What comes back is a frame that
\* from_bytes or from_slice rejects (41-42, `?`), the timeout again, waiting
\* for the bytes the bogus length asks for, or the end of the stream.
MainReadInside ==
    /\ main_pc = "read"
    /\ stream_pos = "inside"
    /\ \/ /\ peer_open
          /\ ProcessFails
       \/ /\ peer_open
          /\ main_pc' = IF LoopBreaks(running) THEN "stop" ELSE "read"
          /\ UNCHANGED tel_pc
       \/ /\ ~peer_open
          /\ main_pc' = "stop"
          /\ UNCHANGED tel_pc
    /\ UNCHANGED <<harnessVars, sharedVars, envelope, response, tick, tel_event,
                   tel_tick, handled, idle_ticks>>

\* Lines 152-180, register_entity, and the Spawned response.
Spawn(request) ==
    LET id == fetch_add(next_id)
        record == EntityRecord(id, unwrap_or(request.dimension, 0),
                               request.entity_type, request.parameters)
    IN  /\ next_id' = next_id + 1
        /\ srv_entities' = Insert(srv_entities, id, record)
        /\ response' = Some(Spawned("Ok", EntitySummary(record)))
        /\ UNCHANGED running

\* Lines 90-111.
List ==
    /\ response' = Some(Listed("Ok", Summaries(srv_entities)))
    /\ UNCHANGED <<srv_entities, next_id, running>>

\* Lines 112-132.
Inspect(request) ==
    LET record == Get(srv_entities, request.entity_id)
    IN  /\ response' = Some(InspectResponse(InspectStatus(record), record, None))
        /\ UNCHANGED <<srv_entities, next_id, running>>

\* Lines 133-139.
Shutdown ==
    /\ running' = FALSE
    /\ response' = Some(ShutdownResponse("Ok", Some("shutdown requested")))
    /\ UNCHANGED <<srv_entities, next_id>>

\* Lines 82-140: `match envelope.payload`.
MainDispatch ==
    /\ main_pc = "dispatch"
    /\ LET request == envelope[1].payload
       IN  CASE request.req = "Spawn" -> Spawn(request)
             [] request.req = "List" -> List
             [] request.req = "Inspect" -> Inspect(request)
             [] request.req = "Shutdown" -> Shutdown
    /\ main_pc' = "tick"
    /\ UNCHANGED <<harnessVars, tick_counter, event_queue, event_tx, wire,
                   peer_open, stream_pos, envelope, tick, telVars, handled, idle_ticks>>

\* Line 143: `let tick = tick_counter.fetch_add(1, ..) + 1`.
MainTick ==
    /\ main_pc = "tick"
    /\ tick' = fetch_add(tick_counter) + 1
    /\ tick_counter' = tick_counter + 1
    /\ main_pc' = "send"
    /\ UNCHANGED <<harnessVars, srv_entities, next_id, running, event_queue,
                   event_tx, wire, peer_open, stream_pos, envelope, response, telVars,
                   handled, idle_ticks>>

\* Line 144: `let _ = event_tx.send(build_event(tick, entities))`; the send
\* fails, unnoticed, once the telemetry thread has dropped the receiver.
MainSend ==
    /\ main_pc = "send"
    /\ event_queue' = IF tel_pc = "ended"
                      THEN event_queue
                      ELSE Append(event_queue, build_event(tick, srv_entities))
    /\ main_pc' = "write"
    /\ UNCHANGED <<harnessVars, srv_entities, next_id, running, tick_counter,
                   event_tx, wire, peer_open, stream_pos, envelope, response, tick, telVars,
                   handled, idle_ticks>>

\* Lines 51-55: the response envelope is encoded and written, then the flag
\* is looked at.  A write on a connection the client has closed may fail,
\* and `?` returns the error from main.
MainWrite ==
    /\ main_pc \in {"write", "write_rest"}
    /\ \/ /\ wire' = Append(wire, ResponseFrame(ResponseEnvelope(envelope[1], response[1])))
          /\ main_pc' = IF LoopBreaks(running) THEN "stop" ELSE "read"
          /\ UNCHANGED tel_pc
       \/ /\ ~peer_open
          /\ ProcessFails
          /\ UNCHANGED wire
    /\ envelope' = None
    /\ response' = None
    /\ tick' = 0
    /\ UNCHANGED <<harnessVars, srv_entities, next_id, running, tick_counter,
                   event_queue, event_tx, peer_open, stream_pos, tel_event, tel_tick,
                   handled, idle_ticks>>

\* Lines 251-252 in main: a `write` of write_all takes only the first bytes
\* of the response frame; write_all goes on with the rest.
MainWritePart ==
    /\ main_pc = "write"
    /\ wire' = Append(wire, PartOf("Response"))
    /\ main_pc' = "write_rest"
    /\ UNCHANGED <<harnessVars, srv_entities, next_id, running, tick_counter,
                   event_queue, event_tx, peer_open, stream_pos, envelope,
                   response, tick, telVars, handled, idle_ticks>>

\* Line 68: `running.store(false, ..)`.
MainStop ==
    /\ main_pc = "stop"
    /\ running' = FALSE
    /\ main_pc' = "drop_tx"
    /\ UNCHANGED <<harnessVars, srv_entities, next_id, tick_counter, event_queue,
                   event_tx, wire, peer_open, stream_pos, envelope, response, tick, telVars,
                   handled, idle_ticks>>

\* Line 69: `drop(event_tx)`.
MainDropTx ==
    /\ main_pc = "drop_tx"
    /\ event_tx' = "dropped"
    /\ main_pc' = "join"
    /\ UNCHANGED <<harnessVars, srv_entities, next_id, running, tick_counter,
                   event_queue, wire, peer_open, stream_pos, envelope, response, tick,
                   telVars, handled, idle_ticks>>

\* Lines 70-71: `telemetry_handle.join()`, then `Ok(())`.
MainJoin ==
    /\ main_pc = "join"
    /\ tel_pc = "ended"
    /\ main_pc' = "ended"
    /\ UNCHANGED <<harnessVars, sharedVars, envelope, response, tick, telVars,
                   handled, idle_ticks>>

MainSteps ==
    \/ MainDispatch
    \/ MainTick
    \/ MainSend
    \/ MainWrite
    \/ MainStop
    \/ MainDropTx
    \/ MainJoin

\* Line 204: `while running.load(..)`.
TelLoop ==
    /\ tel_pc = "loop"
    /\ tel_pc' = IF running THEN "recv" ELSE "ended"
    /\ UNCHANGED <<harnessVars, sharedVars, mainVars, tel_event, tel_tick,
                   handled, idle_ticks>>

\* Line 205: `event_rx.recv_timeout(10 ms)`: Ok(event), Timeout or
\* Disconnected.
TelRecv ==
    /\ tel_pc = "recv"
    /\ \/ /\ event_queue # <<>>
          /\ tel_event' = Some(Head(event_queue))
          /\ event_queue' = Tail(event_queue)
          /\ tel_pc' = "fetch_max"
          /\ UNCHANGED idle_ticks
       \/ /\ event_queue = <<>>
          /\ event_tx = "open"
          /\ idle_ticks < MaxIdleTicks
          /\ idle_ticks' = idle_ticks + 1
          /\ tel_pc' = "idle_tick"
          /\ UNCHANGED <<event_queue, tel_event>>
       \/ /\ event_queue = <<>>
          /\ event_tx = "dropped"
          /\ tel_pc' = "ended"
          /\ UNCHANGED <<event_queue, tel_event, idle_ticks>>
    /\ UNCHANGED <<harnessVars, srv_entities, next_id, running, tick_counter,
                   event_tx, wire, peer_open, stream_pos, mainVars, tel_tick, handled>>

\* Lines 207-209: `tick_counter.fetch_max(tick, ..)`.
TelFetchMax ==
    /\ tel_pc = "fetch_max"
    /\ tick_counter' = FetchMax(tick_counter, tel_event[1].tick)
    /\ tel_pc' = "write"
    /\ UNCHANGED <<harnessVars, srv_entities, next_id, running, event_queue,
                   event_tx, wire, peer_open, stream_pos, mainVars, tel_event, tel_tick,
                   handled, idle_ticks>>

\* Line 217: `let tick = tick_counter.fetch_add(1, ..) + 1`.
TelIdleTick ==
    /\ tel_pc = "idle_tick"
    /\ tel_tick' = fetch_add(tick_counter) + 1
    /\ tick_counter' = tick_counter + 1
    /\ tel_pc' = "build"
    /\ UNCHANGED <<harnessVars, srv_entities, next_id, running, event_queue,
                   event_tx, wire, peer_open, stream_pos, mainVars, tel_event, handled,
                   idle_ticks>>

\* Line 218: `let event = build_event(tick, &entities)`.
TelBuild ==
    /\ tel_pc = "build"
    /\ tel_event' = Some(build_event(tel_tick, srv_entities))
    /\ tel_pc' = "write"
    /\ UNCHANGED <<harnessVars, sharedVars, mainVars, tel_tick, handled,
                   idle_ticks>>

\* Lines 210-214 and 219-223: the event is encoded and written; a failed
\* write ends the thread.
TelWrite ==
    /\ tel_pc \in {"write", "write_rest"}
    /\ \/ /\ wire' = Append(wire, EventFrame(tel_event[1]))
          /\ tel_pc' = "loop"
       \/ /\ ~peer_open
          /\ tel_pc' = "ended"
          /\ UNCHANGED wire
    /\ tel_event' = None
    /\ tel_tick' = 0
    /\ UNCHANGED <<harnessVars, srv_entities, next_id, running, tick_counter,
                   event_queue, event_tx, peer_open, stream_pos, mainVars, handled,
                   idle_ticks>>

\* Lines 251-252 in the telemetry thread, on its clone of the socket: a
\* `write` of write_all takes only the first bytes of the event frame.
TelWritePart ==
    /\ tel_pc = "write"
    /\ wire' = Append(wire, PartOf("Event"))
    /\ tel_pc' = "write_rest"
    /\ UNCHANGED <<harnessVars, srv_entities, next_id, running, tick_counter,
                   event_queue, event_tx, peer_open, stream_pos, mainVars,
                   tel_event, tel_tick, handled, idle_ticks>>

TelSteps ==
    \/ TelLoop
    \/ TelRecv
    \/ TelFetchMax
    \/ TelIdleTick
    \/ TelBuild
    \/ TelWrite

\* The client closes the connection.
ClientClose ==
    /\ peer_open
    /\ peer_open' = FALSE
    /\ UNCHANGED <<harnessVars, srv_entities, next_id, running, tick_counter,
                   event_queue, event_tx, wire, stream_pos, mainVars, telVars,
                   handled, idle_ticks>>

ServerInit ==
    /\ StartupInit
    /\ tick_wait = 1

(***************************************************************************)
(* The server with a client that spawns, inspects and lists entities and   *)
(* keeps the connection open: the dispatch loop and the telemetry thread.  *)
(***************************************************************************)
EntityRead == MainRead(Envelopes({7}, Spawns \cup Inspects \cup {ListPayload}))

EntityNext ==
    \/ EntityRead
    \/ MainDispatch
    \/ MainTick
    \/ MainSend
    \/ MainWrite
    \/ TelSteps

EntitySpec == ServerInit /\ [][EntityNext]_vars

(***************************************************************************)
(* The server after it has answered two Spawns (ids 1 and 2, two idle or   *)
(* request ticks written), with a client that goes on to spawn, to list    *)
(* and to ask for the shutdown.                                            *)
(* `handled` and `wire` record what is read and written from here on.      *)
(***************************************************************************)
SeededStore ==
    Insert(Insert(<<>>, 1, EntityRecord(1, 0, "probe", EntityParameters(0, 0, 1))),
           2, EntityRecord(2, 1, "rock", EntityParameters(1, 2, 3)))

ListInit ==
    /\ child_exited = FALSE
    /\ child_status = "None"
    /\ client = "None"
    /\ log_buffer = <<>>
    /\ event_buffer = <<>>
    /\ log_collector = "None"
    /\ event_collector = "None"
    /\ max_tick = 0
    /\ tick_wait = 1
    /\ entity_dimensions = {}
    /\ entities = <<>>
    /\ connected = FALSE
    /\ logThread = "none"
    /\ evThread = "none"
    /\ evPending = NoTick
    /\ readers = {}
    /\ log_chan = <<>>
    /\ delivered = <<>>
    /\ LocksFree
    /\ handle = "none"
    /\ alive = FALSE
    /\ FreshForeground
    /\ srv_entities = SeededStore
    /\ next_id = 3
    /\ running = TRUE
    /\ tick_counter = 2
    /\ event_queue = <<>>
    /\ event_tx = "open"
    /\ wire = <<>>
    /\ peer_open = TRUE
    /\ stream_pos = "boundary"
    /\ main_pc = "read"
    /\ envelope = None
    /\ response = None
    /\ tick = 0
    /\ tel_pc = "loop"
    /\ tel_event = None
    /\ tel_tick = 0
    /\ handled = <<>>
    /\ idle_ticks = 0

ListRead ==
    MainRead(Envelopes({7}, Spawns \cup {ListPayload, ShutdownPayload}))

ListNext ==
    \/ ListRead
    \/ MainSteps
    \/ TelSteps

ListSpec == ListInit /\ [][ListNext]_vars

(***************************************************************************)
(* The server with a client that sends requests under ids of its choice    *)
(* and asks for the shutdown.                                              *)
(***************************************************************************)
ServerRead ==
    MainRead(Envelopes(RequestIds, {ListPayload, ShutdownPayload}))

ServerNext ==
    \/ ServerRead
    \/ MainSteps
    \/ TelSteps
    \/ ClientClose

ServerSpec == ServerInit /\ [][ServerNext]_vars

(***************************************************************************)
(* The server with a client that lists and asks for the shutdown, both     *)
(* threads of the server being scheduled by the operating system.          *)
(***************************************************************************)
StopRead == MainRead(Envelopes({7}, {ListPayload, ShutdownPayload}))

StopNext ==
    \/ StopRead
    \/ MainSteps
    \/ TelSteps
    \/ ClientClose

StopFairSpec ==
    /\ ServerInit
    /\ [][StopNext]_vars
    /\ WF_vars(StopRead \/ MainSteps)
    /\ WF_vars(TelSteps)

\* The same server and client, only the telemetry thread being scheduled
\* fairly: main may stay blocked in its read for ever, no request arriving.
IdleFairSpec == ServerInit /\ [][StopNext]_vars /\ WF_vars(TelSteps)

(***************************************************************************)
(* The server with a client whose frames may arrive in parts.              *)
(***************************************************************************)
FrameNext ==
    \/ StopRead
    \/ MainReadShort
    \/ MainReadInside
    \/ MainSteps
    \/ TelSteps
    \/ ClientClose

FrameSpec == ServerInit /\ [][FrameNext]_vars

(***************************************************************************)
(* The server on a connection whose `write` may take a part of a frame.    *)
(***************************************************************************)
WriteNext ==
    \/ StopRead
    \/ MainSteps
    \/ MainWritePart
    \/ TelSteps
    \/ TelWritePart
    \/ ClientClose

WriteSpec == ServerInit /\ [][WriteNext]_vars

\* The Spawn requests among the requests read so far.
SpawnsRead == SelectSeq(handled, LAMBDA e : e.payload.req = "Spawn")

\* The response frames written so far, in wire order.
Responses == SelectSeq(wire, LAMBDA f : f.frame = "Response")

\* handle_request dispatches a request of the given kind.
Dispatches(kind) ==
    /\ main_pc = "dispatch"
    /\ main_pc' = "tick"
    /\ envelope[1].payload.req = kind

\* C15: the i-th Spawn request the server handles is given entity id i,
\* whatever other requests were handled before it: the Spawned response
\* carries i, the record is stored under i and the ids in use are 1..i.
C15_IthSpawnGetsIdI ==
    [][Dispatches("Spawn") =>
         LET i == Len(SpawnsRead)
         IN  /\ response'[1].kind = "Spawned"
             /\ response'[1].entity.entity_id = i
             /\ DOMAIN srv_entities' = 1..i
             /\ srv_entities'[i].entity_id = i
             /\ \A k \in DOMAIN srv_entities : srv_entities'[k] = srv_entities[k]]_vars

C15_Witness ==
    /\ Len(Responses) = 2
    /\ Responses[1].payload.kind = "Spawned"
    /\ Responses[1].payload.entity.entity_id = 1
    /\ Responses[2].payload.kind = "Spawned"
    /\ Responses[2].payload.entity.entity_id = 2

\* The Spawned responses written so far; the k-th answers the k-th Spawn
\* request read.
SpawnedResponses == SelectSeq(Responses, LAMBDA f : f.payload.kind = "Spawned")

\* C16: an Inspect of the id of an entity that a Spawned{Ok} response
\* announced is answered InspectResult{Ok, Some(record), None}; the record
\* has the id asked for, the dimension of the Spawn request (0 if it gave
\* none) and the kind, position, velocity and mass of the Spawn request,
\* whatever dimension the Inspect names and whatever was handled in between.
C16_SpawnInspectRoundTrip ==
    [][Dispatches("Inspect") =>
         \A k \in 1..Len(SpawnedResponses) :
            LET summary == SpawnedResponses[k].payload.entity
                spawn == SpawnsRead[k].payload
                id == envelope[1].payload.entity_id
            IN  (SpawnedResponses[k].payload.status = "Ok" /\ summary.entity_id = id)
                => response'[1] =
                     InspectResponse("Ok",
                        Some([dimension |-> IF spawn.dimension = None
                                            THEN 0 ELSE spawn.dimension[1],
                              entity_id |-> id,
                              kind |-> spawn.entity_type,
                              position |-> spawn.parameters.position,
                              velocity |-> spawn.parameters.velocity,
                              mass |-> spawn.parameters.mass]),
                        None)]_vars

C16_Witness ==
    /\ Len(Responses) = 2
    /\ Responses[1].payload.kind = "Spawned"
    /\ Responses[1].payload.entity.dimension = 1
    /\ Responses[2].payload.kind = "InspectResult"
    /\ Responses[2].payload.status = "Ok"
    /\ Responses[2].payload.entity[1].dimension = 1
    /\ Responses[2].payload.entity[1].kind = "rock"
    /\ handled[2].payload.dimension = 0

\* The ids the Spawned responses written so far have announced.
AnnouncedIds ==
    { SpawnedResponses[k].payload.entity.entity_id : k \in 1..Len(SpawnedResponses) }

\* C17: an Inspect of an id that no Spawn was given is answered
\* InspectResult{NotFound, None, None}; the entity store and the id counter
\* stay as they were and the dispatch loop goes on to write the response.
C17_InspectUnknownIsNotFound ==
    [][(Dispatches("Inspect") /\ envelope[1].payload.entity_id \notin AnnouncedIds)
         => /\ response'[1] = InspectResponse("NotFound", None, None)
            /\ srv_entities' = srv_entities
            /\ next_id' = next_id]_vars

C17_Witness ==
    /\ Len(Responses) = 2
    /\ Responses[1].payload.kind = "InspectResult"
    /\ Responses[1].payload.status = "NotFound"
    /\ Responses[1].payload.entity = None
    /\ Responses[2].payload.kind = "Spawned"
    /\ Responses[2].payload.entity.entity_id = 1

\* The ids of the response envelopes written and of the request envelopes
\* read, each in its order.
ResponseIds == [i \in 1..Len(Responses) |-> Responses[i].id]
RequestIdsRead == [i \in 1..Len(handled) |-> handled[i].id]

\* main is between reading a request and writing its response.
Handling == main_pc \in {"dispatch", "tick", "send", "write", "write_rest"}

\* C18, as claimed: once the server is done with the requests it has read,
\* the ids of the responses written are the ids of the requests read, one
\* response for each request and in the same order.
C18_AsClaimed == ~Handling => ResponseIds = RequestIdsRead

\* C18: the responses written carry, in order, the ids of the requests
\* read; a request has no response only while it is being handled, or when
\* the write of its response failed and ended the process, and it is then
\* the last request read.
C18_ResponsesEchoIdsInOrder ==
    /\ IsPrefix(ResponseIds, RequestIdsRead)
    /\ Len(RequestIdsRead) <= Len(ResponseIds) + 1
    /\ Len(RequestIdsRead) > Len(ResponseIds) => (Handling \/ main_pc = "failed")

C18_Witness ==
    /\ main_pc = "read"
    /\ ResponseIds = <<9, 7>>
    /\ RequestIdsRead = <<9, 7>>
    /\ Len(wire) > 2

\* The response to a Shutdown request is on the connection.
ShutdownAnswered ==
    \E i \in 1..Len(Responses) : Responses[i].payload.kind = "Shutdown"

\* The server process has ended.
ProcessEnded == main_pc \in {"ended", "failed"}

\* C19: the running flag, once cleared, is never set again, and a process
\* that has ended stays ended; a Shutdown request clears the flag and is
\* answered Shutdown{Ok, Some("shutdown requested")}; once that response is
\* written the dispatch loop reads no further request, and the telemetry
\* thread and then the process end.
C19_ShutdownStopsServer ==
    /\ [][running' => running]_vars
    /\ [][ProcessEnded => main_pc' = main_pc /\ tel_pc' = "ended"]_vars
    /\ [][Dispatches("Shutdown") =>
            /\ running' = FALSE
            /\ response'[1] = ShutdownResponse("Ok", Some("shutdown requested"))]_vars
    /\ [][ShutdownAnswered => handled' = handled]_vars
    /\ ShutdownAnswered ~> (main_pc = "ended" /\ tel_pc = "ended")

C19_Witness ==
    /\ ShutdownAnswered
    /\ Len(handled) = 2
    /\ handled[2].payload.req = "Shutdown"
    /\ ~running
    /\ main_pc = "ended"
    /\ tel_pc = "ended"
    /\ peer_open

\* The event frames written so far, in wire order.
EventsWritten == SelectSeq(wire, LAMBDA f : f.frame = "Event")

\* C20, as claimed: the ticks of the Telemetry events on the connection are
\* non-decreasing in wire order.
C20_AsClaimed ==
    \A i, j \in 1..Len(EventsWritten) :
        i < j => EventsWritten[i].payload.tick <= EventsWritten[j].payload.tick

(***************************************************************************)
(* Claims about refresh_entities and telemetry_for, checked in             *)
(* ShutdownSpec.                                                           *)
(***************************************************************************)
\* The index a listing gives: its (entity_id, dimension) pairs.
PairsOf(list) == { <<list[i].entity_id, list[i].dimension>> : i \in 1..Len(list) }

C24_TelemetryForUsesIndex ==
    [][ /\ (pc = "tf_entry" /\ pc' # pc /\ entity_id \notin CachedIds) =>
              /\ pc' = "idle"
              /\ ret' = "Ok(None)"
              /\ lines' = None
              /\ sent' = sent
        /\ (pc = "tf_entry" /\ pc' # pc /\ entity_id \in CachedIds
               /\ client = "Some") =>
              /\ pc' = "tf_reply"
              /\ \E d \in 0..U32Max :
                    /\ <<entity_id, d>> \in entity_dimensions
                    /\ sent' = Append(sent, Request("Inspect", "", d, entity_id))
        /\ pc = "tf_reply" =>
              /\ sent' = sent
              /\ pc' \in {"tf_reply", "idle"}
        /\ (pc = "tf_reply" /\ pc' = "idle" /\ reply[1].kind # "SendErr") =>
              IF reply[1].kind = "InspectResult"
              THEN /\ lines' = reply[1].entity
                   /\ ret' = IF reply[1].entity = None THEN "Ok(None)"
                                                       ELSE "Ok(Some)"
              ELSE ret' = "UnexpectedResponse"
      ]_vars

\* telemetry_for is about to return on an InspectResult with status NotFound
\* and no record, received for the Inspect it sent for a cached id.
C24_Witness ==
    /\ pc = "tf_reply"
    /\ reply = Some(InspectResult("NotFound", None))
    /\ sent = <<InspectRequest(0, 2)>>
    /\ <<2, 0>> \in entity_dimensions

(***************************************************************************)
(* The handshake of spawn, checked in StartupSpec.                         *)
(***************************************************************************)
\* The text contains "listening on" in some letter case.
HasNeedle(text) == \E i \in 1..Len(text) : LowerPiece(text[i]) = "listening on"

\* The text contains "listening on" followed, blanks aside, by exactly the
\* address a.
Announces(text, a) ==
    /\ a \in SocketAddrs
    /\ \E i \in 1..Len(text) :
          /\ LowerPiece(text[i]) = "listening on"
          /\ SelectSeq(SubSeq(text, i + 1, Len(text)), LAMBDA p : p # " ") = <<a>>

\* C26: the handshake appends every line it receives to the log buffer, the
\* one that yields the address included; a line that contains "listening on"
\* (in any letter case) and whose remainder is not an address does not end
\* the handshake; and the handshake returns an address only if the line just
\* received contained "listening on" followed by that very address.
C26_HandshakeLines ==
    [][ (pc = "sp_recv" /\ pc' # pc /\ log_chan # <<>>) =>
          /\ log_buffer' = Append(log_buffer, Head(log_chan))
          /\ log_chan' = Tail(log_chan)
          /\ (HasNeedle(Head(log_chan).line)
                /\ \A a \in SocketAddrs : ~Announces(Head(log_chan).line, a))
             => (pc' \in {"sp_try_wait", "sp_timeout"} /\ addr' = None)
          /\ pc' = "sp_connect" =>
                /\ addr' # None
                /\ Announces(Head(log_chan).line, addr'[1])
      ]_vars

\* The handshake has returned the address of the upper-case line, after a
\* line with "listening on" and no address; both lines are in the log buffer.
C26_Witness ==
    /\ pc = "sp_connect"
    /\ addr = Some("127.0.0.1:5000")
    /\ log_buffer = <<BadListenLine, UpperListenLine>>

(***************************************************************************)
(* Claims about the reference server's List, checked in ListSpec.          *)
(***************************************************************************)
\* C28: the dispatch of a List request gives Listed with status Ok and a
\* list holding exactly one summary per stored record, with the record's id,
\* kind, dimension and position, in strictly ascending order of id, and
\* leaves the store as it was.
C28_ListSummarisesStore ==
    [][ (main_pc = "dispatch" /\ main_pc' # main_pc
            /\ envelope[1].payload.req = "List") =>
          LET listed == response'[1]
          IN  /\ listed.kind = "Listed"
              /\ listed.status = "Ok"
              /\ Len(listed.entities) = Cardinality(DOMAIN srv_entities)
              /\ \A id \in DOMAIN srv_entities :
                    \E i \in 1..Len(listed.entities) :
                        listed.entities[i] =
                            [entity_id |-> srv_entities[id].entity_id,
                             kind |-> srv_entities[id].kind,
                             dimension |-> srv_entities[id].dimension,
                             position |-> srv_entities[id].position]
              /\ \A i, j \in 1..Len(listed.entities) :
                    i < j => listed.entities[i].entity_id
                               < listed.entities[j].entity_id
              /\ srv_entities' = srv_entities
      ]_vars

\* A List was dispatched on a store of three records, the third spawned just
\* before, and answered with their three summaries.
C28_Witness ==
    /\ main_pc = "tick"
    /\ envelope[1].payload.req = "List"
    /\ DOMAIN srv_entities = {1, 2, 3}
    /\ response # None
    /\ response[1].kind = "Listed"
    /\ Len(response[1].entities) = 3

\* main takes a step of handle_request.
MainStepsFrom(at) == main_pc = at /\ main_pc' # main_pc

WrittenAfter(T) ==
    \E i \in 1..Len(EventsWritten) : EventsWritten[i].payload.tick > T

\* C21: while the server runs and its connection is writable, from a tick
\* counter of T (the telemetry thread still having an idle tick to generate,
\* within the bound of the model) an event with a tick greater than T is
\* eventually written, whether or not a request arrives, unless the server
\* stops or the connection closes first.
C21_IdleProgress ==
    \A T \in 0..(MaxRequests + MaxIdleTicks) :
        (/\ running
         /\ peer_open
         /\ main_pc # "failed"
         /\ idle_ticks < MaxIdleTicks
         /\ tick_counter = T)
          ~> (WrittenAfter(T) \/ ~running \/ ~peer_open \/ main_pc = "failed")

\* No request was read, the server runs, and the tick of an idle timeout is
\* on the connection.
C21_Witness ==
    /\ handled = <<>>
    /\ running
    /\ peer_open
    /\ wire = <<EventFrame(Telemetry(0, 1))>>

(***************************************************************************)
(* Short reads, checked in FrameSpec.                                      *)
(***************************************************************************)
\* main has left the dispatch loop.
LoopExited == main_pc \in {"stop", "drop_tx", "join", "ended", "failed"}

\* C22, as claimed: once a read of a frame has come up short, part of the
\* frame consumed, the dispatch loop has exited; main is never back at
\* read_frame with the stream inside a frame.
C22_AsClaimed == stream_pos = "inside" => LoopExited

(***************************************************************************)
(* Frames on the connection to the client, checked in WriteSpec.           *)
(***************************************************************************)
\* C29, as claimed: the bytes of a response frame and of an event frame
\* never interleave: the first part of a frame on the connection is followed
\* at once by the rest of the same frame, or is the last thing written.
C29_AsClaimed ==
    \A i \in 1..Len(wire) :
        wire[i].frame = "Part" =>
            \/ i = Len(wire)
            \/ wire[i + 1].frame = wire[i].payload.kind

(***************************************************************************)
(* The locks of the log buffer and of the event buffer, checked in         *)
(* LockSpec.                                                               *)
(***************************************************************************)
Threads == {"foreground", "log_collector", "event_collector"}

\* The positions at which the foreground thread is inside a blocking
\* operation: socket I/O, a sleep, a wait for the child, a join, a receive.
BlockingPcs ==
    Awaiting \cup {"adv_sleep", "sd_send", "sd_poll", "sd_wait", "sd_join_log",
                   "sd_join_ev", "sp_recv"}

\* The thread is inside a blocking operation; the collectors block in recv.
Blocked(t) ==
    CASE t = "foreground" -> pc \in BlockingPcs
      [] t = "log_collector" -> logThread = "running" /\ lc_line = None
      [] t = "event_collector" ->
            evThread = "running" /\ ec_event = None /\ evPending = NoTick

\* C30: no thread holds the lock of the log buffer and the lock of the event
\* buffer at the same time; a thread inside a blocking operation (channel
\* receive, socket I/O, sleep, join) holds neither; and a lock is held only
\* for one append or one scan: its holder is about to append the line or
\* event it received, or to scan, and its next step does that and releases
\* the lock.
C30_LocksAreLeaves ==
    /\ [](/\ \A t \in Threads : ~(log_lock = t /\ event_lock = t)
          /\ \A t \in Threads :
                Blocked(t) => (log_lock # t /\ event_lock # t)
          /\ log_lock \in {"free", "foreground", "log_collector"}
          /\ event_lock \in {"free", "foreground", "event_collector"}
          /\ log_lock = "log_collector" => lc_line # None
          /\ event_lock = "event_collector" => ec_event # None
          /\ log_lock = "foreground" => pc \in {"lf_logs_held", "al_logs_held"}
          /\ event_lock = "foreground"
                => pc \in {"lf_events_held", "al_events_held"})
    /\ [][ /\ (log_lock = "log_collector" /\ lc_line' # lc_line) =>
                 /\ log_lock' = "free"
                 /\ log_buffer' = Append(log_buffer, lc_line[1])
           /\ (event_lock = "event_collector" /\ ec_event' # ec_event) =>
                 /\ event_lock' = "free"
                 /\ event_buffer' = Append(event_buffer, ec_event[1])
           /\ (log_lock = "foreground" /\ pc' # pc) =>
                 /\ log_lock' = "free"
                 /\ log_buffer' = log_buffer
           /\ (event_lock = "foreground" /\ pc' # pc) =>
                 /\ event_lock' = "free"
                 /\ event_buffer' = event_buffer
         ]_vars

\* all three threads are at a buffer: the foreground thread scans the log
\* buffer under its lock, the event collector holds the lock of the event
\* buffer, and the log collector, a line in hand, waits for the log lock.
C30_Witness ==
    /\ log_lock = "foreground"
    /\ event_lock = "event_collector"
    /\ lc_line # None
    /\ pc = "lf_logs_held"

(***************************************************************************)
(* The harness driving the reference server, as tests/harness_smoke.rs     *)
(* does: spawn, run_scenario, advance_ticks, telemetry_for, shutdown.      *)
(* What Client::send returns is the response main of fake_engine wrote to  *)
(* the request, and the events the event collector receives are the ones   *)
(* the telemetry thread wrote.                                             *)
(***************************************************************************)
\* The scenarios run: one probe without a dimension (harness_smoke.rs
\* 31-42), and the same followed by a second entity in dimension 1.
SmokeScenarios ==
    { <<SpawnSpec("probe", None)>>,
      <<SpawnSpec("probe", None), SpawnSpec("rock", Some(1))>> }

\* The request as the server decodes it; run_scenario sends the parameters
\* of the spawn along (harness.rs 125-129).
PayloadOf(request) ==
    IF request.req = "Spawn"
    THEN ServerRequest("Spawn", request.entity_type, EntityParameters(0, 1, 1),
                       request.dimension, 0)
    ELSE ServerRequest(request.req, "", None, None, request.entity_id)

\* The envelope of the i-th request the client sent.
EnvelopeOf(i) == RequestEnvelope(i, PayloadOf(sent[i]))

\* The engine process exists and has accepted the client (fake_engine.rs
\* 19-20); a process that has exited or was killed takes no step.
EngineServing == handle \notin {"none", "local"} /\ ~child_exited

\* Line 40 with 56-62, the client being the harness: the next request the
\* client wrote is read; without one the read times out after 50 ms, or
\* ends once the client has closed the connection.
SmokeRead ==
    /\ main_pc = "read"
    /\ stream_pos = "boundary"
    /\ IF Len(handled) < Len(sent)
       THEN /\ envelope' = Some(EnvelopeOf(Len(handled) + 1))
            /\ handled' = Append(handled, EnvelopeOf(Len(handled) + 1))
            /\ main_pc' = "dispatch"
       ELSE /\ main_pc' = IF peer_open
                          THEN (IF LoopBreaks(running) THEN "stop" ELSE "read")
                          ELSE "stop"
            /\ UNCHANGED <<envelope, handled>>
    /\ UNCHANGED <<harnessVars, sharedVars, response, tick, telVars, idle_ticks>>

\* The responses written to the request sent last.
Answers ==
    { f.payload : f \in { Responses[i] : i \in 1..Len(Responses) } \cap
                        { g \in { Responses[i] : i \in 1..Len(Responses) } :
                            g.id = Len(sent) } }

\* Client::send returns: the response of the server to the request, or an
\* error once the connection is closed without one.
SmokeRecv ==
    /\ pc \in Awaiting
    /\ reply = None
    /\ \/ \E resp \in Answers : reply' = Some(resp)
       \/ /\ Answers = {}
          /\ ~connected
          /\ reply' = Some(SendErr)
    /\ UNCHANGED <<childVars, fieldVars, envVars, pc, op, ticks, entity_id,
                   start_tick, target_tick, waited, deadline, elapsed, spawns,
                   addr, handle, alive, obsVars,
                   serverVars>>

\* The event collector receives the next event the server wrote.
SmokeEvent ==
    /\ Len(event_buffer) < Len(EventsWritten)
    /\ EventCollectorRecv(EventsWritten[Len(event_buffer) + 1].payload)

\* The client sees the connection closed once the engine is gone.
SmokeDisconnect ==
    /\ child_exited \/ ProcessEnded
    /\ Disconnect

\* The server sees the connection closed once the harness has dropped the
\* client.
SmokeClose ==
    /\ client = "None"
    /\ handle \notin {"none", "local"}
    /\ ClientClose

\* The process exits when main has returned (fake_engine.rs 72).
SmokeExit ==
    /\ ProcessEnded
    /\ ChildExit

\* The engine dies under a telemetry_for in progress.
SmokeCrash ==
    /\ op = "telemetry_for"
    /\ pc # "idle"
    /\ ChildExit

\* The engine prints its listen line once, before it accepts (19), and
\* nothing after it: the handshake takes the line and the log collector,
\* started after the handshake, receives none.
SmokeListen ==
    /\ delivered = <<>>
    /\ ReaderSend(ListenLine)

\* The ends of the log readers and of the two collectors are seen by
\* join_workers alone (harness.rs 408-415): they are taken where it waits
\* for them.
SmokeLogEnd ==
    /\ pc = "sd_join_log"
    /\ (LogCollectorEnd \/ \E st \in Streams : ReaderEnd(st))

SmokeEventEnd ==
    /\ pc = "sd_join_ev"
    /\ EventCollectorEnd

\* request_shutdown in front of the server: `client.send(Shutdown)` (389)
\* returns once the response has come or the connection is closed, and the
\* poll loop starts after that.
SmokeShutdown ==
    /\ pc # "sd_send" => (Answers # {} \/ ~connected)
    /\ ShutdownSteps

SmokeNext ==
    \/ CallSpawn
    \/ SpawnSteps
    \/ \E sc \in SmokeScenarios : CallRunScenario(sc)
    \/ RsLoop
    \/ RsMatch
    \/ SmokeRecv
    \/ /\ op = "run_scenario"
       /\ ret = "Ok"
       /\ CallAdvanceTicks(1)
    \/ AdvanceSteps
    \/ /\ op = "advance_ticks"
       /\ ret = "Ok"
       /\ \E i \in 1..Len(entities) : CallTelemetryFor(entities[i].entity_id)
    \/ TelemetryFor
    \/ TfMatch
    \/ /\ op = "telemetry_for"
       /\ ret = "Ok(Some)"
       /\ CallRequestShutdown("shutdown")
    \/ SmokeShutdown
    \/ SmokeExit
    \/ SmokeCrash
    \/ SmokeDisconnect
    \/ SmokeClose
    \/ SmokeListen
    \/ SmokeLogEnd
    \/ SmokeEvent
    \/ EventCollectorFetchMax
    \/ SmokeEventEnd
    \/ /\ EngineServing
       /\ (SmokeRead \/ MainSteps \/ TelSteps)

\* Nothing is started yet; tick_wait is the default of EngineConfig.
SmokeInit ==
    /\ StartupInit
    /\ tick_wait = 1

SmokeSpec == SmokeInit /\ [][SmokeNext]_vars

\* The number of spawn directives run_scenario has sent.
SpawnsSent == Len(SelectSeq(sent, LAMBDA r : r.req = "Spawn"))

\* The engine process runs: main has not returned and the child is alive.
EngineRunning == ~child_exited /\ ~ProcessEnded

\* The session built by run_scenario lists one entity per spawn directive.
SessionListsSpawns ==
    handle = "session" =>
        /\ Len(entities) = SpawnsSent
        /\ SpawnsSent >= 1
        /\ \A i \in 1..Len(entities) : entities[i].entity_id = i

\* telemetry_for of a listed entity, called after a successful
\* advance_ticks, has returned while the engine runs: the result is
\* Some(record) and the record carries the id asked for.
TelemetryWhileRunning ==
    (op = "telemetry_for" /\ pc = "idle" /\ ret # "none" /\ EngineRunning) =>
        /\ ret = "Ok(Some)"
        /\ lines # None
        /\ sent[Len(sent)].req = "Inspect"
        /\ lines[1].entity_id = sent[Len(sent)].entity_id

\* Session::shutdown, called after all that, returns Ok.
ShutdownSucceeds ==
    (op = "shutdown" /\ pc = "idle" /\ ret # "none") => ret = "Ok"

\* C25, as claimed: driving the reference server end to end, after spawn and
\* run_scenario with k >= 1 spawn directives succeed the session lists k
\* entities; for each of them, after a successful advance_ticks,
\* telemetry_for returns Some(record) with the id asked for as long as the
\* engine runs; and Session::shutdown then succeeds.
C25_AsClaimed ==
    /\ SessionListsSpawns
    /\ TelemetryWhileRunning
    /\ ShutdownSucceeds

\* The Spawn requests of a list of spawn directives, in list order.
RequestsOf(list) == [i \in 1..Len(list) |-> SpawnRequest(list[i])]

\* run_scenario is between two steps of its loop.
InRunScenario == op = "run_scenario" /\ pc \in {"rs_loop", "rs_reply"}

\* C31: run_scenario sends one Spawn request per spawn directive in list
\* order, each only after the response to the previous one was accepted (the
\* requests sent so far followed by those of the directives still to do are
\* the requests of the scenario, and one summary was pushed per request
\* answered); a response Spawned{Ok} appends its summary to the list, so
\* that on success the list holds the summaries in directive order; at the
\* first response that is not Spawned{Ok} it returns UnexpectedResponse
\* (Protocol when the send itself failed) and no further request is sent.
C31_RunScenarioInOrder ==
    /\ [](InRunScenario =>
            \E sc \in Scenarios :
               LET done == IF pc = "rs_reply" THEN Len(sent) - 1 ELSE Len(sent)
               IN  /\ Len(sent) >= (IF pc = "rs_reply" THEN 1 ELSE 0)
                   /\ RequestsOf(sc) = SubSeq(sent, 1, done) \o RequestsOf(spawns)
                   /\ Len(entities) = done
                   /\ (pc = "rs_reply" =>
                         sent[Len(sent)] = SpawnRequest(Head(spawns))))
    /\ []((op = "run_scenario" /\ pc = "idle" /\ ret = "Ok") =>
            /\ Len(entities) = Len(sent)
            /\ \E sc \in Scenarios : RequestsOf(sc) = sent)
    /\ [][ /\ (pc = "rs_reply" /\ pc' # pc) =>
                LET resp == reply[1]
                IN  IF resp.kind = "Spawned" /\ resp.status = "Ok"
                    THEN /\ pc' = "rs_loop"
                         /\ entities' = entities \o <<resp.entity>>
                         /\ sent' = sent
                    ELSE /\ pc' = "idle"
                         /\ ret' = (IF resp.kind = "SendErr"
                                    THEN "Protocol" ELSE "UnexpectedResponse")
                         /\ sent' = sent
           /\ (pc = "rs_loop" /\ pc' = "idle") =>
                /\ spawns = <<>>
                /\ ret' = "Ok"
                /\ entities' = entities
           /\ (op = "run_scenario" /\ pc = "idle") => sent' = sent
         ]_vars

\* run_scenario has returned Ok after two spawns were answered Spawned{Ok}:
\* both summaries are listed, in the order of the directives.
C31_Witness ==
    /\ op = "run_scenario"
    /\ pc = "idle"
    /\ ret = "Ok"
    /\ Len(sent) = 2
    /\ Len(entities) = 2
    /\ sent[1].entity_type = "probe"
    /\ sent[2].entity_type = "rock"
    /\ entities[1].entity_id # entities[2].entity_id

\* The line all_logs renders for an event: Event-tagged, with the id and the
\* tick of a Telemetry event or the message of a Log event.
RendersEvent(l, e) ==
    /\ l.stream = "Event"
    /\ IF e.kind = "Telemetry"
       THEN l.line.id = e.id /\ l.line.tick = e.tick
       ELSE l.line = e.message

\* C32: all_logs returns exactly (number of log-buffer lines) + (number of
\* buffered events) lines, each buffer taken as it is while all_logs holds
\* its lock: the scan of the log buffer makes the result the log buffer
\* itself (every line, in buffer order, with its stream tag), and the scan of
\* the event buffer, with which all_logs returns, appends one Event-tagged
\* line per buffered event in event-buffer order and nothing else.
C32_AllLogsIsBothBuffers ==
    [][ /\ (pc = "al_logs_held" /\ pc' # pc) =>
              /\ lines' = log_buffer
              /\ log_buffer' = log_buffer
        /\ (pc = "al_events_held" /\ pc' # pc) =>
              /\ pc' = "idle"
              /\ ret' = "lines"
              /\ event_buffer' = event_buffer
              /\ Len(lines') = Len(lines) + Len(event_buffer)
              /\ SubSeq(lines', 1, Len(lines)) = lines
              /\ \A i \in 1..Len(event_buffer) :
                    RendersEvent(lines'[Len(lines) + i], event_buffer[i])
      ]_vars

\* all_logs has returned two lines of the engine followed by the lines of a
\* Telemetry event and of a Log event.
C32_Witness ==
    /\ op = "all_logs"
    /\ pc = "idle"
    /\ ret = "lines"
    /\ Len(lines) = 4
    /\ lines[1].stream = "Stdout"
    /\ lines[2].stream = "Stderr"
    /\ lines[3].stream = "Event"
    /\ lines[4].stream = "Event"
    /\ event_buffer = <<Telemetry(1, 1), LogEvent>>

\* The ticks of the Telemetry events in the event buffer.
BufferedTicks ==
    { event_buffer[i].tick :
        i \in { j \in 1..Len(event_buffer) : event_buffer[j].kind = "Telemetry" } }

\* C33: max_tick is 0 or the tick of a Telemetry event that is already in
\* the event buffer (the collector appends the event before it raises
\* max_tick); hence when advance_ticks returns Ok through the tick path the
\* event buffer holds a Telemetry event whose tick is at least the target.
C33_MaxTickIsBuffered ==
    /\ [](max_tick = 0 \/ max_tick \in BufferedTicks)
    /\ [][(op = "advance_ticks" /\ pc # "idle" /\ pc' = "idle" /\ ret' = "Ok"
             /\ path' = "tick")
            => \E t \in BufferedTicks : t >= target_tick]_vars

\* advance_ticks has returned through the tick path after the collector
\* published the tick of a buffered Telemetry event; an event with a lower
\* tick was buffered after it.
C33_Witness ==
    /\ op = "advance_ticks"
    /\ pc = "idle"
    /\ ret = "Ok"
    /\ path = "tick"
    /\ max_tick = 2
    /\ Len(event_buffer) = 2
    /\ event_buffer[1].tick = 2
    /\ event_buffer[2].tick = 1

\* The threads of the harness are operating-system threads: the foreground
\* thread inside the shutdown sequence, a log reader at the end of its
\* stream and a collector whose recv has failed each take their next step.
\* Nothing makes the engine exit.
ShutdownFairSpec ==
    /\ ShutdownSpec
    /\ WF_vars(ShutdownSteps)
    /\ WF_vars(\E st \in Streams : ReaderEnd(st))
    /\ WF_vars(LogCollectorEnd)
    /\ WF_vars(EventCollectorEnd)

\* join_workers is reached with the client dropped.
ClientDroppedBeforeJoin ==
    pc \in {"sd_join_log", "sd_join_ev"} => client = "None"

\* The log collector is joined after the child has exited.
JoinAfterExit == pc = "sd_join_log" => child_exited

\* A run of the shutdown sequence returns.
ShutdownTerminates == (pc \in SdPcs) ~> (pc = "idle")

\* C34, as claimed: the shutdown sequence always terminates; the client is
\* dropped before the collectors are joined, and the log collector is joined
\* only after the child has exited, so that no join waits on a collector
\* whose source is still open.
C34_AsClaimed ==
    /\ []ClientDroppedBeforeJoin
    /\ []JoinAfterExit
    /\ ShutdownTerminates

\* The Shutdown requests handed to the client so far.
ShutdownsSent == Len(SelectSeq(sent, LAMBDA r : r.req = "Shutdown"))

\* C35, as claimed: over the whole life of a Session at most one Shutdown
\* request is sent: Session::shutdown followed by the drop of the session
\* sends it once, and a session that is only dropped sends it once.
C35_AsClaimed ==
    /\ ShutdownsSent <= 1
    /\ (pc = "idle" /\ op = "drop") => ShutdownsSent = 1

(***************************************************************************)
(* The entity cache of a Session from its construction on: spawn, then     *)
(* run_scenario or attach, then refresh_entities, against an engine that   *)
(* may answer anything.                                                    *)
(***************************************************************************)
CacheNext ==
    \/ CallSpawn
    \/ SpawnSteps
    \/ \E sc \in Scenarios : CallRunScenario(sc)
    \/ RsLoop
    \/ RsMatch
    \/ CallAttach
    \/ AtSend
    \/ AtMatch
    \/ CallRefreshEntities
    \/ RefreshEntities
    \/ RfMatch
    \/ ClientRecv
    \/ Disconnect
    \/ ReaderSend(ListenLine)

CacheSpec == StartupInit /\ [][CacheNext]_vars

\* C36: in every state of a Session the id -> dimension index agrees with
\* the cached entity list: the keys of the index are the ids of the list's
\* entities, every id has one dimension, and it is the dimension of a list
\* entity with that id; after run_scenario, after attach and after every
\* refresh_entities, successful or failed.
C36_IndexAgreesWithList ==
    handle = "session" =>
        /\ \A id \in EntityIds :
              (\E d \in 0..1 : <<id, d>> \in entity_dimensions)
                 <=> (\E i \in 1..Len(entities) : entities[i].entity_id = id)
        /\ \A e \in entity_dimensions :
              /\ \E i \in 1..Len(entities) :
                    /\ entities[i].entity_id = e[1]
                    /\ entities[i].dimension = e[2]
              /\ \A f \in entity_dimensions : f[1] = e[1] => f = e

\* run_scenario has built a session from two spawns that the engine answered
\* with the same id in two dimensions: the index holds the id once, with
\* the dimension of the second summary.
C36_Witness ==
    /\ handle = "session"
    /\ op = "run_scenario"
    /\ pc = "idle"
    /\ Len(entities) = 2
    /\ entities[1].entity_id = entities[2].entity_id
    /\ entities[1].dimension # entities[2].dimension
    /\ entity_dimensions = {<<entities[2].entity_id, entities[2].dimension>>}

\* C37: when refresh_entities fails (ConnectionClosed, a protocol error of
\* the client, a status that is not Ok or another response variant), the
\* cached entity list and the id -> dimension index are what they were
\* before the call: no step of a call changes them except the return of Ok.
C37_FailedRefreshKeepsCache ==
    [][(op = "refresh_entities" /\ pc # "idle"
          /\ ~(pc' = "idle" /\ ret' = "Ok")) =>
            /\ entities' = entities
            /\ entity_dimensions' = entity_dimensions
            /\ (pc' = "idle" =>
                  ret' \in {"ConnectionClosed", "Protocol", "UnexpectedResponse"})
      ]_vars

\* A refresh of a session that lists two entities has failed with
\* UnexpectedResponse; the two entities and their index are still cached.
C37_Witness ==
    /\ op = "refresh_entities"
    /\ pc = "idle"
    /\ ret = "UnexpectedResponse"
    /\ entities = <<Summary(1, 1), Summary(2, 0)>>
    /\ entity_dimensions = {<<1, 1>>, <<2, 0>>}

\* The Telemetry events the server has produced, wherever they are: written
\* to the connection, in the hands of the telemetry thread, or queued by
\* main for it.
EventsProduced ==
    [i \in 1..Len(EventsWritten) |-> EventsWritten[i].payload]
        \o (IF tel_event = None THEN <<>> ELSE <<tel_event[1]>>)
        \o event_queue

\* C38: no two Telemetry events produced by one server carry the same tick,
\* under every interleaving of main and the telemetry thread, and the tick
\* counter never decreases.
C38_TicksAreUnique ==
    /\ [](LET produced == EventsProduced
          IN  Cardinality({ produced[i].tick : i \in 1..Len(produced) })
                 = Len(produced))
    /\ [][tick_counter' >= tick_counter]_vars

\* Both threads have produced events: the idle tick 2 of the telemetry
\* thread was written before the tick 1 that main had drawn, and a third
\* event follows.
C38_Witness ==
    /\ idle_ticks = 1
    /\ [i \in 1..Len(EventsWritten) |-> EventsWritten[i].payload.tick]
          = <<2, 1, 3>>

(***************************************************************************)
(* The entity store over the server's life: a server that has registered   *)
(* two entities and goes on to read Spawn, Inspect, List and Shutdown      *)
(* requests while the telemetry thread runs.                               *)
(***************************************************************************)
StoreRead ==
    MainRead(Envelopes({7}, Spawns \cup Inspects \cup {ListPayload, ShutdownPayload}))

StoreNext ==
    \/ StoreRead
    \/ MainSteps
    \/ TelSteps

StoreSpec == ListInit /\ [][StoreNext]_vars

\* C39: the entity store only grows and its records are immutable.  Every
\* step keeps every record there is; the store changes only in the dispatch
\* of a Spawn, which adds exactly one record under an id that was not a key
\* before; the dispatch of List, Inspect and Shutdown and every step of the
\* telemetry thread leave it as it is.  An id of the store is answered by
\* Inspect with its record and by List with the summary of its record.
C39_StoreOnlyGrows ==
    [][ /\ \A id \in DOMAIN srv_entities :
              /\ id \in DOMAIN srv_entities'
              /\ srv_entities'[id] = srv_entities[id]
        /\ srv_entities' # srv_entities => Dispatches("Spawn")
        /\ Dispatches("Spawn") =>
              \E id \in DOMAIN srv_entities' \ DOMAIN srv_entities :
                 /\ DOMAIN srv_entities' = DOMAIN srv_entities \cup {id}
                 /\ srv_entities'[id].entity_id = id
        /\ Dispatches("Inspect") =>
              LET id == envelope[1].payload.entity_id
              IN  id \in DOMAIN srv_entities =>
                     /\ response'[1].status = "Ok"
                     /\ response'[1].entity = Some(srv_entities[id])
        /\ Dispatches("List") =>
              \A id \in DOMAIN srv_entities :
                 \E i \in 1..Len(response'[1].entities) :
                    response'[1].entities[i] = EntitySummary(srv_entities[id])
      ]_vars

\* A Spawn was handled, then an Inspect of an entity registered before it
\* is answered with the record it was registered with, after the idle
\* telemetry sender has ticked.
C39_Witness ==
    /\ Len(handled) = 2
    /\ handled[1].payload.req = "Spawn"
    /\ handled[2].payload.req = "Inspect"
    /\ handled[2].payload.entity_id = 1
    /\ main_pc = "tick"
    /\ response[1].entity = Some(SeededStore[1])
    /\ DOMAIN srv_entities = {1, 2, 3}
    /\ idle_ticks > 0

(***************************************************************************)
(* The polling loop of advance_ticks.                                      *)
(***************************************************************************)
\* advance_ticks(n) with 1 <= n <= u32::MAX and a non-zero tick_wait is
\* under way, past its entry.
AdvancePolling ==
    /\ op = "advance_ticks"
    /\ pc \notin {"idle", "adv_entry"}
    /\ tick_wait > 0
    /\ ticks \in 1..U32Max

\* Every iteration that runs to its end adds tick_wait to `waited`: the
\* number of sleeps done so far.
Sleeps == waited \div tick_wait

\* C40: with a non-zero tick_wait, advance_ticks(n), 1 <= n <= u32::MAX,
\* runs its loop at most 2n + 1 times before the fallback: an iteration
\* starts after at most 2n sleeps, the fallback after at most 2n + 1.  An
\* iteration is one try_wait, one test of max_tick and one sleep that adds
\* tick_wait to `waited`, in this order, and no step of the call, the
\* fallback included, sends a request.
C40_LoopIsBounded ==
    /\ [](AdvancePolling =>
             /\ Sleeps * tick_wait = waited
             /\ Sleeps <= 2 * ticks + 1
             /\ pc \in {"adv_try_wait", "adv_check_tick", "adv_sleep"} =>
                   Sleeps <= 2 * ticks)
    /\ [][(AdvancePolling /\ pc' # pc) =>
             /\ sent' = sent
             /\ pc = "adv_try_wait" =>
                   \/ pc' = "idle"
                   \/ pc' = "adv_check_tick" /\ waited' = waited
             /\ pc = "adv_check_tick" =>
                   \/ pc' = "idle"
                   \/ pc' = "adv_sleep" /\ waited' = waited
             /\ pc = "adv_sleep" =>
                   /\ pc' \in {"adv_try_wait", "fb_try_wait"}
                   /\ waited' = waited + tick_wait
             /\ pc = "fb_try_wait" =>
                   \/ pc' = "idle"
                   \/ pc' = "fb_client" /\ waited' = waited
             /\ pc = "fb_client" => pc' = "idle"]_vars

\* advance_ticks(U32Max) has run its loop 2 * U32Max + 1 times and is at the
\* fallback's try_wait.
C40_Witness ==
    /\ AdvancePolling
    /\ ticks = U32Max
    /\ pc = "fb_try_wait"
    /\ Sleeps = 2 * ticks + 1

====
